---- MODULE Spec2Model ----
(***************************************************************************)
(* Model of the Todoist -> Obsidian notes exporter:                        *)
(*   src/src/core.py              export_tasks_internal (one export run)   *)
(*   src/src/obsidian_exporter.py ObsidianExporter (rendering and writer)  *)
(*   src/src/todoist_client.py    TodoistClient (the fetches)              *)
(*                                                                         *)
(* A Python str is a sequence of atoms.  An atom is one character ("-",    *)
(* " ", "\n", ...) or a literal chunk of generated text ("title: ") that   *)
(* holds no newline, is not whitespace and is not a dash.  A file on disk  *)
(* is its whole content as one such sequence, so split, strip and join    *)
(* are computed as the code computes them.                                 *)
(***************************************************************************)
EXTENDS Integers, Sequences, FiniteSets, TLC

(***************************************************************************)
(* Python str helpers.                                                     *)
(***************************************************************************)
NL == "\n"
TAB == "\t"
SP == " "
DASH == "-"

\* None of Python; ids and optional arguments are strings or None.
None == "None"

\* bool(x) of an optional string: None and "" are false.
Truthy(x) == x # None /\ x # ""

IsSpace(a) == a \in {SP, TAB, NL}

RECURSIVE LStrip(_)
LStrip(s) == IF s # <<>> /\ IsSpace(Head(s)) THEN LStrip(Tail(s)) ELSE s

RECURSIVE RStrip(_)
RStrip(s) ==
  IF s # <<>> /\ IsSpace(s[Len(s)]) THEN RStrip(SubSeq(s, 1, Len(s) - 1)) ELSE s

\* str.strip()
Strip(s) == LStrip(RStrip(s))

\* str.split("\n"): the segments between newlines; "" gives one empty segment.
RECURSIVE SplitLines(_)
SplitLines(s) ==
  IF \A i \in 1..Len(s) : s[i] # NL THEN <<s>>
  ELSE LET first == CHOOSE i \in 1..Len(s) : s[i] = NL /\ \A j \in 1..(i - 1) : s[j] # NL
       IN <<SubSeq(s, 1, first - 1)>> \o SplitLines(SubSeq(s, first + 1, Len(s)))

\* "\n".join(parts)
RECURSIVE JoinLines(_)
JoinLines(parts) ==
  IF parts = <<>> THEN <<>>
  ELSE IF Len(parts) = 1 THEN parts[1]
  ELSE parts[1] \o <<NL>> \o JoinLines(Tail(parts))

\* sep.join(parts) for an arbitrary separator string
RECURSIVE JoinWith(_, _)
JoinWith(sep, parts) ==
  IF parts = <<>> THEN <<>>
  ELSE IF Len(parts) = 1 THEN parts[1]
  ELSE parts[1] \o sep \o JoinWith(sep, Tail(parts))

IsPrefix(p, s) == Len(p) <= Len(s) /\ SubSeq(s, 1, Len(p)) = p
IsSuffix(p, s) == Len(p) <= Len(s) /\ SubSeq(s, Len(s) - Len(p) + 1, Len(s)) = p

(***************************************************************************)
(* Character tables.  The model's alphabet is small; the tables say what   *)
(* Python does to each atom of it.                                         *)
(***************************************************************************)
DQ == "\""
SQ == "'"
BS == "\\"
US == "_"

\* str.lower(), atom by atom (the priority labels are literal chunks).
LowerAtom(a) ==
  CASE a = "W" -> "w"
    [] a = "O" -> "o"
    [] a = "R" -> "r"
    [] a = "K" -> "k"
    [] a = "H" -> "h"
    [] a = "High" -> "high"
    [] a = "Medium" -> "medium"
    [] a = "Low" -> "low"
    [] a = "None" -> "none"
    [] OTHER -> a

Lower(s) == [i \in 1..Len(s) |-> LowerAtom(s[i])]

\* str.replace(old, new) for a one-character old: every occurrence, left to right.
RECURSIVE Replace(_, _, _)
Replace(s, old, new) ==
  IF s = <<>> THEN <<>>
  ELSE (IF Head(s) = old THEN new ELSE <<Head(s)>>) \o Replace(Tail(s), old, new)

Contains(s, a) == \E i \in 1..Len(s) : s[i] = a

\* The two non-ASCII characters of the alphabet: U+00E9 (e with acute accent)
\* and U+2713 (check mark).
EAcute == "U+00E9"
CheckMark == "U+2713"

\* unicodedata.normalize("NFKD", c).encode("ascii", "ignore"): an accented
\* letter keeps its base letter, any other non-ASCII character disappears.
AsciiFoldAtom(a) ==
  CASE a = EAcute -> <<"e">>
    [] a = CheckMark -> <<>>
    [] OTHER -> <<a>>

\* atom by atom; the string is folded by halves to keep the recursion shallow
RECURSIVE AsciiFold(_)
AsciiFold(s) ==
  IF s = <<>> THEN <<>>
  ELSE IF Len(s) = 1 THEN AsciiFoldAtom(s[1])
  ELSE LET half == Len(s) \div 2
       IN AsciiFold(SubSeq(s, 1, half)) \o AsciiFold(SubSeq(s, half + 1, Len(s)))

(***************************************************************************)
(* ObsidianExporter: sanitize_filename, format_yaml_string, format_tags.   *)
(***************************************************************************)
ForbiddenChars == {"<", ">", ":", DQ, "/", BS, "|", "?", "*"}

\* len(sanitized) > 200
MaxFilenameLen == 200

\* A variant of CollapseUnderscores that leaves the runs as they are.
KeepUnderscores(s) == s

\* re.sub(r"_+", "_", s): every run of underscores keeps its first one
CollapseUnderscores(s) ==
  LET kept == SelectSeq([i \in 1..Len(s) |-> i],
                        LAMBDA i : ~(s[i] = US /\ i > 1 /\ s[i - 1] = US))
  IN [k \in 1..Len(kept) |-> s[kept[k]]]

\* str.strip("_ ") and str.rstrip("_")
RECURSIVE LStripSet(_, _)
LStripSet(s, cs) == IF s # <<>> /\ Head(s) \in cs THEN LStripSet(Tail(s), cs) ELSE s

RECURSIVE RStripSet(_, _)
RStripSet(s, cs) ==
  IF s # <<>> /\ s[Len(s)] \in cs THEN RStripSet(SubSeq(s, 1, Len(s) - 1), cs) ELSE s

sanitize_filename(name) ==
  LET ascii_name == AsciiFold(name)
      replaced == [i \in 1..Len(ascii_name) |->
                     IF ascii_name[i] \in ForbiddenChars THEN US ELSE ascii_name[i]]
      collapsed == CollapseUnderscores(replaced)
      stripped == LStripSet(RStripSet(collapsed, {US, SP}), {US, SP})
      limited == IF Len(stripped) > MaxFilenameLen
                 THEN RStripSet(SubSeq(stripped, 1, MaxFilenameLen), {US})
                 ELSE stripped
  IN IF limited = <<>> THEN <<"untitled">> ELSE limited

format_yaml_string(value) ==
  IF Contains(value, SQ) /\ ~Contains(value, DQ) THEN <<DQ>> \o value \o <<DQ>>
  ELSE IF Contains(value, DQ) /\ ~Contains(value, SQ) THEN <<SQ>> \o value \o <<SQ>>
  ELSE IF \E c \in {DQ, SQ, NL, TAB, BS} : Contains(value, c)
  THEN LET e1 == Replace(value, BS, <<BS, BS>>)
           e2 == Replace(e1, DQ, <<BS, DQ>>)
           e3 == Replace(e2, NL, <<BS, "n">>)
           e4 == Replace(e3, TAB, <<BS, "t">>)
       IN <<DQ>> \o e4 \o <<DQ>>
  ELSE <<DQ>> \o value \o <<DQ>>

\* TodoistTask.priority_text
priority_text(priority) ==
  CASE priority = 4 -> <<"High">>
    [] priority = 3 -> <<"Medium">>
    [] priority = 2 -> <<"Low">>
    [] OTHER -> <<"None">>

\* A variant of HasPriorityTag that tags every priority, the lowest included.
HasPriorityTagFromLowest(task, config) == config.priority_as_tags /\ task.priority >= 1

\* `if self.config.priority_as_tags and task.priority > 1`
HasPriorityTag(task, config) == config.priority_as_tags /\ task.priority > 1

format_tags(task, project, config) ==
  LET base == <<<<"#">> \o config.tag_prefix>>
      project_tag == sanitize_filename(Replace(Lower(project.name), SP, <<DASH>>))
      ptag == <<<<"#">> \o config.tag_prefix \o <<"/">> \o project_tag>>
      prio == IF HasPriorityTag(task, config)
              THEN <<<<"#">> \o config.tag_prefix \o <<"/priority/">>
                       \o Lower(priority_text(task.priority))>>
              ELSE <<>>
      labels == IF config.labels_as_tags
                THEN [i \in 1..Len(task.labels) |->
                        <<"#">> \o config.tag_prefix \o <<"/label/">>
                          \o sanitize_filename(
                               Replace(Lower(task.labels[i]), SP, <<DASH>>))]
                ELSE <<>>
      status == IF task.is_completed THEN <<"completed">> ELSE <<"active">>
  IN base \o ptag \o prio \o labels
       \o <<<<"#">> \o config.tag_prefix \o <<"/status/">> \o status>>

(***************************************************************************)
(* Values passed around.                                                   *)
(*   task     [id, content, description, project_id, section_id,           *)
(*             parent_id, order, priority, labels, due_date, url,          *)
(*             comment_count, is_completed, created_at]                    *)
(*   project  [id, name]                                                   *)
(*   section  [id, name]; NoSection stands for None                        *)
(*   comment  [content, posted_at]                                          *)
(*   comments [none, items]: none = TRUE stands for None                   *)
(*   config   ExportConfig                                                 *)
(***************************************************************************)
NoSection == [id |-> None, name |-> <<>>]

NoComments == [none |-> TRUE, items |-> <<>>]

SomeComments(items) == [none |-> FALSE, items |-> items]

\* The timestamps a comment's posted_at takes in the model: one that
\* datetime.fromisoformat accepts, and the empty string from_api_comment
\* stores when the API object has no posted_at, which it rejects.
GoodStamp == "2024-01-11T15:30:00Z"
BadStamp == ""

\* datetime.fromisoformat(posted_at.replace("Z", "+00:00")) raises ValueError
PostedAtParses(posted_at) == posted_at = GoodStamp

\* dt_object.strftime("%d %b %H:%M")
FormatPostedAt(posted_at) == <<"11 Jan 15:30">>

\* The status glyphs U+2705 (completed) and U+2B1C (active).
status_icon(task) == IF task.is_completed THEN "U+2705" ELSE "U+2B1C"

BoolLower(b) == IF b THEN <<"true">> ELSE <<"false">>

format_frontmatter(task, project, section, config) ==
  LET tags == format_tags(task, project, config)
      tags_str == JoinWith(<<DQ, ",", SP, DQ>>,
                           [i \in 1..Len(tags) |-> LStripSet(tags[i], {"#"})])
      labels_str == JoinWith(<<DQ, ",", SP, DQ>>, task.labels)
      frontmatter ==
        <<<<DASH, DASH, DASH>>,
          <<"title: ">> \o format_yaml_string(task.content),
          <<"todoist_id: ">> \o format_yaml_string(<<task.id>>),
          <<"project: ">> \o format_yaml_string(project.name),
          <<"project_id: ", DQ, project.id, DQ>>>>
        \o (IF section # NoSection
            THEN <<<<"section: ">> \o format_yaml_string(section.name),
                   <<"section_id: ", DQ, section.id, DQ>>>>
            ELSE <<>>)
        \o <<<<"created: ", DQ>> \o task.created_at \o <<DQ>>>>
        \o (IF task.due_date # <<>>
            THEN <<<<"due_date: ", DQ>> \o task.due_date \o <<DQ>>>>
            ELSE <<>>)
        \o <<<<"priority: ", ToString(task.priority)>>,
             <<"priority_text: ", DQ>> \o priority_text(task.priority) \o <<DQ>>>>
        \o (IF task.labels # <<>>
            THEN <<<<"labels: [", DQ>> \o labels_str \o <<DQ, "]">>>>
            ELSE <<>>)
        \o <<<<"completed: ">> \o BoolLower(task.is_completed)>>
        \o (IF task.url # <<>>
            THEN <<<<"todoist_url: ", DQ>> \o task.url \o <<DQ>>>>
            ELSE <<>>)
        \o (IF tags # <<>>
            THEN <<<<"tags: [", DQ>> \o tags_str \o <<DQ, "]">>>>
            ELSE <<>>)
        \o <<<<DASH, DASH, DASH>>, <<>>>>
  IN JoinLines(frontmatter)

\* A variant of InsertByOrder that puts a task before those of equal order.
RECURSIVE InsertBeforeEqual(_, _)
InsertBeforeEqual(sorted, t) ==
  IF sorted = <<>> THEN <<t>>
  ELSE IF sorted[Len(sorted)].order < t.order THEN Append(sorted, t)
  ELSE Append(InsertBeforeEqual(SubSeq(sorted, 1, Len(sorted) - 1), t),
              sorted[Len(sorted)])

\* sorted(child_tasks, key=lambda t: t.order): stable, ascending
RECURSIVE InsertByOrder(_, _)
InsertByOrder(sorted, t) ==
  IF sorted = <<>> THEN <<t>>
  ELSE IF sorted[Len(sorted)].order <= t.order THEN Append(sorted, t)
  ELSE Append(InsertByOrder(SubSeq(sorted, 1, Len(sorted) - 1), t), sorted[Len(sorted)])

RECURSIVE SortedByOrder(_)
SortedByOrder(ts) ==
  IF ts = <<>> THEN <<>>
  ELSE InsertByOrder(SortedByOrder(SubSeq(ts, 1, Len(ts) - 1)), ts[Len(ts)])

\* checkbox = "[x]" if child_task.is_completed else "[ ]"
checkbox(child_task) == IF child_task.is_completed THEN "[x]" ELSE "[ ]"

\* f"- {checkbox} {child_task.content}"
SubtaskLine(child_task) == <<"- ", checkbox(child_task), SP>> \o child_task.content

\* f"* {formatted_datetime} - {comment.content}"
CommentLine(comment) ==
  <<"* ">> \o FormatPostedAt(comment.posted_at) \o <<" - ">> \o comment.content

\* The comments section is rendered: `if comments and self.config.include_comments`
RendersComments(comments, config) ==
  ~comments.none /\ comments.items # <<>> /\ config.include_comments

\* format_task_content raises (ValueError of fromisoformat)
RenderRaises(comments, config) ==
  /\ RendersComments(comments, config)
  /\ \E i \in 1..Len(comments.items) : ~PostedAtParses(comments.items[i].posted_at)

format_task_content(task, project, comments, child_tasks, section, config) ==
  LET sorted_children == SortedByOrder(child_tasks)
      content ==
        <<format_frontmatter(task, project, section, config),
          <<"# ", status_icon(task), SP>> \o task.content,
          <<>>>>
        \o (IF task.description # <<>>
            THEN <<<<"## Description">>, <<>>, task.description, <<>>>>
            ELSE <<>>)
        \o (IF child_tasks # <<>>
            THEN <<<<"## Subtasks">>, <<>>>>
                 \o [i \in 1..Len(sorted_children) |-> SubtaskLine(sorted_children[i])]
                 \o <<<<>>>>
            ELSE <<>>)
        \o (IF RendersComments(comments, config)
            THEN <<<<"## Comments">>, <<>>>>
                 \o [i \in 1..Len(comments.items) |-> CommentLine(comments.items[i])]
            ELSE <<>>)
  IN JoinLines(content)

(***************************************************************************)
(* ObsidianExporter.export_task.  A file on disk is [exists, text].        *)
(***************************************************************************)
NoFile == [exists |-> FALSE, text |-> <<>>]

FileOf(text) == [exists |-> TRUE, text |-> text]

\* A variant of get_output_path that names the file after the task's title.
get_output_path_by_title(task, project) == sanitize_filename(task.content) \o <<".md">>

\* output_dir / f"{task.id}.md": the project plays no part
get_output_path(task, project) == <<task.id, ".md">>

Separator == <<DASH, DASH, DASH>>

\* separators: the indices of the lines whose strip() is "---", ascending
SeparatorIndices(lines) == {i \in 1..Len(lines) : Strip(lines[i]) = Separator}

\* the k-th smallest element of a set of integers
RECURSIVE KthSmallest(_, _)
KthSmallest(S, k) ==
  LET m == CHOOSE x \in S : \A y \in S : x <= y
  IN IF k = 1 THEN m ELSE KthSmallest(S \ {m}, k - 1)

\* `if len(separators) >= 3`: user content starts after separators[2]
MinSeparators == 3

\* A variant of ExistingUserContent that asks for two separators, the ones of
\* the frontmatter (as the comment of line 345 puts it), and keeps what
\* follows the second.
UserContentAfterSecondSeparator(existing_content) ==
  LET lines == SplitLines(existing_content)
      separators == SeparatorIndices(lines)
  IN IF Cardinality(separators) >= MinSeparators - 1
     THEN LET user_content_start == KthSmallest(separators, MinSeparators - 1) + 1
              user_lines == SubSeq(lines, user_content_start, Len(lines))
          IN IF user_lines # <<>> /\ \E i \in 1..Len(user_lines) : Strip(user_lines[i]) # <<>>
             THEN <<NL, NL, DASH, DASH, DASH, NL, NL>> \o JoinLines(user_lines)
             ELSE <<>>
     ELSE <<>>

\* A variant of ExistingUserContent that takes the user content to start after
\* the last separator of the file, as the comment of line 336 puts it.
UserContentAfterLastSeparator(existing_content) ==
  LET lines == SplitLines(existing_content)
      separators == SeparatorIndices(lines)
  IN IF Cardinality(separators) >= MinSeparators
     THEN LET user_content_start == KthSmallest(separators, Cardinality(separators)) + 1
              user_lines == SubSeq(lines, user_content_start, Len(lines))
          IN IF user_lines # <<>> /\ \E i \in 1..Len(user_lines) : Strip(user_lines[i]) # <<>>
             THEN <<NL, NL, DASH, DASH, DASH, NL, NL>> \o JoinLines(user_lines)
             ELSE <<>>
     ELSE <<>>

\* existing_user_content as lines 337-358 compute it from the file's text
ExistingUserContent(existing_content) ==
  LET lines == SplitLines(existing_content)
      separators == SeparatorIndices(lines)
  IN IF Cardinality(separators) >= MinSeparators
     THEN LET user_content_start == KthSmallest(separators, MinSeparators) + 1
              user_lines == SubSeq(lines, user_content_start, Len(lines))
          IN IF user_lines # <<>> /\ \E i \in 1..Len(user_lines) : Strip(user_lines[i]) # <<>>
             THEN LET joined == JoinLines(user_lines)
                  IN IF Strip(joined) # <<>>
                     THEN <<NL, NL, DASH, DASH, DASH, NL, NL>> \o joined
                     ELSE joined
             ELSE <<>>
     ELSE <<>>

\* `task.is_completed and not self.config.include_completed`: return early
ExporterSkips(task, config) == task.is_completed /\ ~config.include_completed

\* A variant in which a failure to read the existing file leaves export_task.
ReadErrorPropagates == FALSE

\* `except Exception` around the read of the existing file catches the failure
ReadErrorCaught == TRUE

\* final_content; read_fails says that reading the existing file raised,
\* which the except clause turns into "no user content"
FinalContent(file, task, project, comments, child_tasks, section, config, read_fails) ==
  LET existing_user_content ==
        IF file.exists /\ ~read_fails THEN ExistingUserContent(file.text) ELSE <<>>
  IN format_task_content(task, project, comments, child_tasks, section, config)
       \o existing_user_content

\* What a failed f.write leaves behind open(path, "w")'s truncation: a proper
\* prefix of the content.  Two prefixes stand for all of them: the empty one
\* and one that ends inside the content.
WrittenPrefix(final_content, cut) ==
  IF cut = "half" THEN SubSeq(final_content, 1, Len(final_content) \div 2) ELSE <<>>

\* The I/O outcomes of one export_task call.
\*   read:  "ok" | "raises"            (open/read of the existing file)
\*   write: "ok" | "open_raises" | "write_raises", cut: the prefix written
NoIoFault == [read |-> "ok", write |-> "ok", cut |-> "empty"]

IoOutcomes ==
  {io \in [read : {"ok", "raises"}, write : {"ok", "open_raises", "write_raises"},
           cut : {"empty", "half"}] :
     io.cut = "half" => io.write = "write_raises"}

IoFaultCount(io) ==
  (IF io.read = "raises" THEN 1 ELSE 0) + (IF io.write # "ok" THEN 1 ELSE 0)

\* A variant that opens the file for writing before it renders the content.
TruncatedAtRenderFailure(file) == FileOf(<<>>)

\* format_task_content (line 367) raises before the open of line 375: the
\* file is as it was
FileAtRenderFailure(file) == file

\* export_task: [file: the file afterwards, raised: an exception left the
\* call, wrote: the file was written completely]
export_task(file, task, project, comments, child_tasks, section, config, io) ==
  LET final_content ==
        FinalContent(file, task, project, comments, child_tasks, section, config,
                     io.read = "raises")
  IN IF ExporterSkips(task, config)
     THEN [file |-> file, raised |-> FALSE, wrote |-> FALSE]
     ELSE IF io.read = "raises" /\ ~ReadErrorCaught
     THEN [file |-> file, raised |-> TRUE, wrote |-> FALSE]
     ELSE IF RenderRaises(comments, config)
     THEN [file |-> FileAtRenderFailure(file), raised |-> TRUE, wrote |-> FALSE]
     ELSE IF io.write = "open_raises"
     THEN [file |-> file, raised |-> TRUE, wrote |-> FALSE]
     ELSE IF io.write = "write_raises"
     THEN [file |-> FileOf(WrittenPrefix(final_content, io.cut)),
           raised |-> TRUE, wrote |-> FALSE]
     ELSE [file |-> FileOf(final_content), raised |-> FALSE, wrote |-> TRUE]

(***************************************************************************)
(* TodoistClient.  The remote account is                                   *)
(*   remote = [projects, active, completed, sections, filter_hits,         *)
(*             comments]                                                   *)
(* projects, active and completed are what the API lists (in its order),   *)
(* filter_hits the ids of the active tasks the filter expression matches   *)
(* and comments the comments of each task.                                 *)
(***************************************************************************)
\* TodoistTask.from_api_task(api_task, is_completed): comment_count is not
\* available in the REST API and is stored as 0
from_api_task(api_task, is_completed) ==
  [api_task EXCEPT !.comment_count = 0, !.is_completed = is_completed]

\* TodoistClient.get_tasks: a filter expression goes to filter_tasks(query)
\* alone; the project id is used only when there is no filter expression
get_tasks(remote, project_id, filter_expr) ==
  LET api_tasks ==
        IF Truthy(filter_expr)
        THEN SelectSeq(remote.active, LAMBDA t : t.id \in remote.filter_hits)
        ELSE IF Truthy(project_id)
        THEN SelectSeq(remote.active, LAMBDA t : t.project_id = project_id)
        ELSE remote.active
  IN [i \in 1..Len(api_tasks) |-> from_api_task(api_tasks[i], FALSE)]

\* TodoistClient.get_completed_tasks: the project id becomes the filter query
\* "#<project name>" when a fetched project has that id, and no filter otherwise
get_completed_tasks(remote, project_id) ==
  LET named == SelectSeq(remote.projects, LAMBDA p : p.id = project_id)
      api_tasks ==
        IF Truthy(project_id) /\ named # <<>> /\ named[1].name # <<>>
        THEN SelectSeq(remote.completed,
               LAMBDA t : \E i \in 1..Len(remote.projects) :
                            /\ remote.projects[i].id = t.project_id
                            /\ remote.projects[i].name = named[1].name)
        ELSE remote.completed
  IN [i \in 1..Len(api_tasks) |-> from_api_task(api_tasks[i], TRUE)]

\* TodoistClient.get_task_comments
get_task_comments(remote, task_id) == remote.comments[task_id]

(***************************************************************************)
(* export_tasks_internal: the pieces of one run.                           *)
(***************************************************************************)
NotFound == "NotFound"

\* A variant of ResolveProject that takes the last matching project.
ResolveProjectLastMatch(projects, project_id, project_name) ==
  IF project_name # <<>> /\ ~Truthy(project_id)
  THEN LET matching_projects ==
             SelectSeq(projects, LAMBDA p : Lower(p.name) = Lower(project_name))
       IN IF matching_projects = <<>> THEN NotFound
          ELSE matching_projects[Len(matching_projects)].id
  ELSE project_id

\* target_project_id, or NotFound where the code raises TodoistAPIError
ResolveProject(projects, project_id, project_name) ==
  IF project_name # <<>> /\ ~Truthy(project_id)
  THEN LET matching_projects ==
             SelectSeq(projects, LAMBDA p : Lower(p.name) = Lower(project_name))
       IN IF matching_projects = <<>> THEN NotFound ELSE matching_projects[1].id
  ELSE project_id

\* A variant of MergeCompleted that appends every completed task.
AppendCompleted(tasks, completed_tasks) == tasks \o completed_tasks

\* A variant of AsksCompleted that fetches the completed tasks in every run.
AlwaysAsksCompleted(include_completed) == TRUE

\* `if include_completed:` get_completed_tasks is called
AsksCompleted(include_completed) == include_completed

\* the merge of lines 61-64: task_ids is computed once, before the loop
MergeCompleted(tasks, completed_tasks) ==
  LET task_ids == {tasks[i].id : i \in 1..Len(tasks)}
  IN tasks \o SelectSeq(completed_tasks, LAMBDA c : c.id \notin task_ids)

\* A variant of IsChildTask that looks at the section instead of the parent.
IsSectionTask(task) == Truthy(task.section_id)

\* `if task.parent_id:` a child task
IsChildTask(task) == Truthy(task.parent_id)

\* parent_tasks of lines 74-85
ParentTasks(tasks) == SelectSeq(tasks, LAMBDA t : ~IsChildTask(t))

\* child_tasks_by_parent of lines 75-82: a bucket per parent id that occurs
ChildTasksByParent(tasks) ==
  [pid \in {tasks[i].parent_id : i \in {j \in 1..Len(tasks) : IsChildTask(tasks[j])}} |->
     SelectSeq(tasks, LAMBDA t : IsChildTask(t) /\ t.parent_id = pid)]

\* child_tasks_by_parent.get(task.id, [])
ChildTasksOf(child_tasks_by_parent, task) ==
  IF task.id \in DOMAIN child_tasks_by_parent THEN child_tasks_by_parent[task.id] ELSE <<>>

NoProject == [id |-> None, name |-> <<>>]

\* projects_dict.get(task.project_id): the last project listed with that id
ProjectsDictGet(projects, project_id) ==
  LET hits == SelectSeq(projects, LAMBDA p : p.id = project_id)
  IN IF hits = <<>> THEN NoProject ELSE hits[Len(hits)]

\* `if task.is_completed and not include_completed: continue`
OrchestratorSkips(task, include_completed) == task.is_completed /\ ~include_completed

\* A variant of FetchesComments that also asks for a positive comment_count.
FetchesCommentsWhenCounted(task, config) ==
  config.include_comments /\ task.comment_count > 0

\* `exporter.export_task(task, project, comments, child_tasks)`: the call
\* passes no section, so the parameter takes its default None
SectionPassed(task) == NoSection

\* `if export_config.include_comments:` the comments are fetched
FetchesComments(task, config) == config.include_comments

\* Variants in which the except clause lets the failure through.
CompletedFetchErrorPropagates == FALSE

CommentFetchErrorPropagates == FALSE

ExportErrorPropagates == FALSE

\* `except TodoistAPIError` around get_completed_tasks catches the failure
CompletedFetchErrorCaught == TRUE

\* `except TodoistAPIError` around get_task_comments catches the failure
CommentFetchErrorCaught == TRUE

\* `except Exception` around export_task catches the failure
ExportErrorCaught == TRUE

\* exported_count after an export_task call that returned
CountAfterExport(exported_count, outcome) == exported_count + 1

(***************************************************************************)
(* The accounts, arguments and notes the runs are checked on.              *)
(***************************************************************************)
P1 == [id |-> "p1", name |-> <<"W", "o", "r", "k">>]
P2 == [id |-> "p2", name |-> <<"w", "o", "r", "k">>]

BaseTask ==
  [id |-> "t0", content |-> <<"T">>, description |-> <<>>, project_id |-> "p1",
   section_id |-> None, parent_id |-> None, order |-> 1, priority |-> 1,
   labels |-> <<>>, due_date |-> <<>>, url |-> <<>>, comment_count |-> 0,
   is_completed |-> FALSE, created_at |-> <<"2024-01-01T00:00:00Z">>]

\* The tasks of the account: t1 is a parent with the children t2, t3 and t5
\* (t3 sorts before t2, and t5 has the order key of t2), t4 is a standalone
\* task of the other project.
T1 == [BaseTask EXCEPT !.id = "t1", !.content = <<"A">>, !.priority = 4,
                       !.labels = <<<<"u">>>>]
T2 == [BaseTask EXCEPT !.id = "t2", !.content = <<"B">>, !.parent_id = "t1", !.order = 2]
T3 == [BaseTask EXCEPT !.id = "t3", !.content = <<"C">>, !.parent_id = "t1", !.order = 1]
T4 == [BaseTask EXCEPT !.id = "t4", !.content = <<"D">>, !.project_id = "p2",
                       !.description = <<"d">>, !.section_id = "s1"]

\* The section of the account, which t4 is in.
S1 == [id |-> "s1", name |-> <<"S">>]

T5 == [BaseTask EXCEPT !.id = "t5", !.content = <<"E">>, !.parent_id = "t1", !.order = 2]

AllTasks == <<T1, T2, T3, T4, T5>>

TaskIds == {AllTasks[i].id : i \in 1..Len(AllTasks)}

\* How the API lists a task: not at all ("absent"), among the active tasks,
\* among the tasks completed today, in both lists (a recurring task completed
\* today), or twice among the completed tasks.
RECURSIVE CompletedListing(_, _)
CompletedListing(status, i) ==
  IF i > Len(AllTasks) THEN <<>>
  ELSE (CASE status[AllTasks[i].id] \in {"completed", "both"} -> <<AllTasks[i]>>
          [] status[AllTasks[i].id] = "twice" -> <<AllTasks[i], AllTasks[i]>>
          [] OTHER -> <<>>)
       \o CompletedListing(status, i + 1)

GoodComment == [content |-> <<"c">>, posted_at |-> GoodStamp]
BadComment == [content |-> <<"c">>, posted_at |-> BadStamp]

RemoteOf(projects, status) ==
  [projects |-> projects,
   active |-> SelectSeq(AllTasks, LAMBDA t : status[t.id] \in {"active", "both"}),
   completed |-> CompletedListing(status, 1),
   sections |-> <<S1>>,
   filter_hits |-> {"t1", "t4"},
   comments |-> [id \in TaskIds |->
                   CASE id = "t1" -> <<BadComment>>
                     [] id = "t4" -> <<GoodComment>>
                     [] OTHER -> <<>>]]

ConfigOf(include_completed, include_comments) ==
  [include_completed |-> include_completed, include_comments |-> include_comments,
   tag_prefix |-> <<"todoist">>, priority_as_tags |-> TRUE, labels_as_tags |-> TRUE]

Paths == {get_output_path(AllTasks[i], P1) : i \in 1..Len(AllTasks)}

\* The custom text a user keeps below the boundary line of a note.
CustomText == <<"m", "y", NL, "n", "o", "t", "e">>

\* A user appends a boundary line and custom text to a note.
AppendBoundary(text, custom) ==
  text \o (IF text = <<>> \/ text[Len(text)] = NL THEN <<>> ELSE <<NL>>)
       \o Separator \o <<NL>> \o custom

\* The note of t1 left by an earlier export (the task was then titled "O"),
\* to which the user appended a boundary line and custom text.
OldNote ==
  AppendBoundary(
    format_task_content([T1 EXCEPT !.content = <<"O">>], P1, NoComments, <<>>,
                        NoSection, ConfigOf(FALSE, FALSE)),
    CustomText)

InitialFileChoices == {NoFile, FileOf(OldNote)}

\* Runs that vary how the tasks t1 and t4 are listed, the two
\* include_completed settings and the note already present for t1.
CompletionScenarios ==
  [projects : {<<P1, P2>>},
   project_id : {None},
   project_name : {<<>>},
   filter_expr : {None},
   include_completed : BOOLEAN,
   config_include_completed : BOOLEAN,
   include_comments : {FALSE},
   status : [t1 : {"absent", "active", "completed", "both", "twice"},
             t2 : {"absent"}, t3 : {"absent"},
             t4 : {"absent", "active", "completed"}, t5 : {"absent"}],
   note : InitialFileChoices]

\* Runs that vary how the parent t1 and its children t2 and t3 are listed.
FamilyScenarios ==
  [projects : {<<P1, P2>>},
   project_id : {None},
   project_name : {<<>>},
   filter_expr : {None},
   include_completed : BOOLEAN,
   config_include_completed : {TRUE},
   include_comments : {FALSE},
   status : [t1 : {"absent", "active", "completed"},
             t2 : {"absent", "active", "completed", "twice"},
             t3 : {"absent", "active", "completed"},
             t4 : {"absent"}, t5 : {"absent"}],
   note : {NoFile}]

\* Runs that vary the include_comments setting and the fetched projects
\* (without P2 the project of t4 is unknown).
CommentScenarios ==
  [projects : {<<P1, P2>>, <<P1>>},
   project_id : {None},
   project_name : {<<>>},
   filter_expr : {None},
   include_completed : {TRUE},
   config_include_completed : {TRUE},
   include_comments : BOOLEAN,
   status : [t1 : {"absent", "active"}, t2 : {"absent", "active"}, t3 : {"absent"},
             t4 : {"absent", "active", "completed"}, t5 : {"absent"}],
   note : {NoFile}]

\* Runs that vary how the children t2 and t5, which share an order key, and
\* their sibling t3 are listed.
OrderScenarios ==
  [projects : {<<P1, P2>>},
   project_id : {None},
   project_name : {<<>>},
   filter_expr : {None},
   include_completed : {TRUE},
   config_include_completed : {TRUE},
   include_comments : {FALSE},
   status : [t1 : {"active"}, t2 : {"active", "completed"},
             t3 : {"absent", "active", "completed"}, t4 : {"absent"},
             t5 : {"active", "completed"}],
   note : {NoFile}]

\* Runs that vary the project filter and the filter expression.
ScopeScenarios ==
  [projects : {<<P1, P2>>, <<P2, P1>>, <<P1>>},
   project_id : {None, "p2"},
   project_name : {<<>>, <<"W", "O", "R", "K">>, <<"H", "o", "m", "e">>},
   filter_expr : {None, "f"},
   include_completed : BOOLEAN,
   config_include_completed : {TRUE},
   include_comments : {FALSE},
   status : {[t1 |-> "active", t2 |-> "active", t3 |-> "completed", t4 |-> "active",
              t5 |-> "absent"],
             [t1 |-> "both", t2 |-> "absent", t3 |-> "absent", t4 |-> "completed",
              t5 |-> "absent"]},
   note : {NoFile}]

\* The number of injected failures (API errors, I/O errors) in one run.
MaxFaults == 1

(***************************************************************************)
(* State.                                                                  *)
(***************************************************************************)
VARIABLES
  args,                  \* the arguments of export_tasks_internal
  config,                \* export_config
  remote,                \* the Todoist account behind the client
  files,                 \* the output directory: path -> file
  pc,                    \* "start", "fetch", "loop", "done", "error"; "writer"
  projects,              \* locals of export_tasks_internal ...
  target_project_id,
  tasks,
  parent_tasks,
  child_tasks_by_parent,
  idx,                   \* position of the export loop in parent_tasks
  exported_count,
  result,                \* the returned count
  error,                 \* what raised out of the run, "" if nothing
  calls,                 \* history: the client calls made, in order
  exports,               \* history: the export_task calls made, in order
  fetched,               \* history: what get_tasks and get_completed_tasks returned
  failures,              \* history: the calls that failed
  files0,                \* history: the output directory when the run began
  edits,                 \* history: the texts a user appended to a note
  faults,                \* failures injected so far
  is_running,            \* ScheduledSync.is_running
  sync_count,            \* ScheduledSync.sync_count
  last_sync,             \* ScheduledSync.last_sync: <<>> or <<end time of a sync>>
  jobs,                  \* schedule.jobs: the number of registered jobs
  sched_pc,              \* position of the scheduling process; "off" outside it
  caller,                \* who called the sync_tasks in progress
  now,                   \* the clock read by datetime.now()
  syncs,                 \* history: the sync_tasks calls, in order
  stopped,               \* history: stop() has been called
  signals,               \* signals delivered so far
  text_in,               \* the string handed to a formatting function
  tag_in,                \* the task and configuration handed to format_tags
  quoted,                \* <<>> or <<what format_yaml_string returned>>
  filename,              \* <<>> or <<what sanitize_filename returned>>
  tags                   \* <<>> or <<what format_tags returned>>

exportVars == <<args, config, remote, files, pc, projects, target_project_id, tasks,
                parent_tasks, child_tasks_by_parent, idx, exported_count, result,
                error, calls, exports, fetched, failures, files0, edits, faults>>

schedVars == <<is_running, sync_count, last_sync, jobs, sched_pc, caller, now,
               syncs, stopped, signals>>

formatVars == <<text_in, tag_in, quoted, filename, tags>>

vars == <<exportVars, schedVars, formatVars>>

\* the result of a function that has not been applied
NotApplied == <<>>

NoTagInput == [task |-> BaseTask, project |-> NoProject, config |-> ConfigOf(FALSE, FALSE)]

\* No formatting function is under check.
InitFormatOff ==
  /\ text_in = <<>>
  /\ tag_in = NoTagInput
  /\ quoted = NotApplied
  /\ filename = NotApplied
  /\ tags = NotApplied

\* last_sync: <<>> for None, <<t>> for the time t
NeverSynced == <<>>

\* ScheduledSync.__init__, lines 52-54; no job is registered yet.
InitScheduledSync(at) ==
  /\ is_running = FALSE
  /\ sync_count = 0
  /\ last_sync = NeverSynced
  /\ jobs = 0
  /\ sched_pc = at
  /\ caller = ""
  /\ now = 0
  /\ syncs = <<>>
  /\ stopped = FALSE
  /\ signals = 0

\* result: <<>> until the run returns, then <<count>>
NoResult == <<>>

NothingFetched == [tasks |-> <<>>, completed |-> <<>>, merged_completed |-> FALSE]

InitFrom(sc) ==
  /\ args = [project_id |-> sc.project_id, project_name |-> sc.project_name,
             filter_expr |-> sc.filter_expr,
             include_completed |-> sc.include_completed]
  /\ config = ConfigOf(sc.config_include_completed, sc.include_comments)
  /\ remote = RemoteOf(sc.projects, sc.status)
  /\ files = [p \in Paths |-> IF p = get_output_path(T1, P1) THEN sc.note ELSE NoFile]
  /\ files0 = files
  /\ pc = "start"
  /\ projects = <<>>
  /\ target_project_id = None
  /\ tasks = <<>>
  /\ parent_tasks = <<>>
  /\ child_tasks_by_parent = <<>>
  /\ idx = 0
  /\ exported_count = 0
  /\ result = NoResult
  /\ error = ""
  /\ calls = <<>>
  /\ exports = <<>>
  /\ fetched = NothingFetched
  /\ failures = {}
  /\ edits = <<>>
  /\ faults = 0
  /\ InitScheduledSync("off")
  /\ InitFormatOff

Init ==
  \/ \E sc \in CompletionScenarios : InitFrom(sc)
  \/ \E sc \in FamilyScenarios : InitFrom(sc)
  \/ \E sc \in CommentScenarios : InitFrom(sc)
  \/ \E sc \in ScopeScenarios : InitFrom(sc)
  \/ \E sc \in OrderScenarios : InitFrom(sc)

BoolCount(b) == IF b THEN 1 ELSE 0

(***************************************************************************)
(* export_tasks_internal, lines 39-51: fetch the projects and resolve the  *)
(* project filter.                                                         *)
(***************************************************************************)
GetProjects ==
  /\ UNCHANGED <<schedVars, formatVars>>
  /\ pc = "start"
  /\ calls' = Append(calls, <<"get_projects">>)
  /\ \E fails \in BOOLEAN :
       /\ faults + BoolCount(fails) <= MaxFaults
       /\ faults' = faults + BoolCount(fails)
       /\ IF fails
          THEN /\ pc' = "error"
               /\ error' = "get_projects"
               /\ failures' = failures \cup {"get_projects"}
               /\ UNCHANGED <<projects, target_project_id>>
          ELSE LET resolved ==
                     ResolveProject(remote.projects, args.project_id, args.project_name)
               IN /\ projects' = remote.projects
                  /\ UNCHANGED failures
                  /\ IF resolved = NotFound
                     THEN /\ pc' = "error"
                          /\ error' = "project_not_found"
                          /\ UNCHANGED target_project_id
                     ELSE /\ pc' = "fetch"
                          /\ target_project_id' = resolved
                          /\ UNCHANGED error
  /\ UNCHANGED <<args, config, remote, files, tasks, parent_tasks,
                 child_tasks_by_parent, idx, exported_count, result, exports,
                 fetched, files0, edits>>

(***************************************************************************)
(* Lines 53-88: fetch the tasks, merge the completed tasks, group parents  *)
(* and children, construct the exporter (which creates the output          *)
(* directory).                                                             *)
(***************************************************************************)
FetchTasks ==
  /\ UNCHANGED <<schedVars, formatVars>>
  /\ pc = "fetch"
  /\ \E tasks_fail, completed_fail, mkdir_fail \in BOOLEAN :
       LET regular == get_tasks(remote, target_project_id, args.filter_expr)
           asks_completed == ~tasks_fail /\ AsksCompleted(args.include_completed)
           completed == get_completed_tasks(remote, target_project_id)
           merges == asks_completed /\ ~completed_fail
           merged == IF merges THEN MergeCompleted(regular, completed) ELSE regular
           aborted == CASE tasks_fail -> "get_tasks"
                        [] completed_fail /\ ~CompletedFetchErrorCaught ->
                             "get_completed_tasks"
                        [] mkdir_fail -> "mkdir"
                        [] OTHER -> ""
           n == BoolCount(tasks_fail) + BoolCount(completed_fail) + BoolCount(mkdir_fail)
       IN /\ faults + n <= MaxFaults
          /\ completed_fail => asks_completed
          /\ mkdir_fail => (~tasks_fail /\ merged # <<>>
                              /\ (completed_fail => CompletedFetchErrorCaught))
          /\ faults' = faults + n
          /\ failures' = failures
               \cup (IF tasks_fail THEN {"get_tasks"} ELSE {})
               \cup (IF completed_fail THEN {"get_completed_tasks"} ELSE {})
               \cup (IF mkdir_fail THEN {"mkdir"} ELSE {})
          /\ calls' = calls
               \o <<<<"get_tasks", target_project_id, args.filter_expr>>>>
               \o (IF asks_completed
                   THEN <<<<"get_completed_tasks", target_project_id>>>>
                   ELSE <<>>)
          /\ fetched' = IF tasks_fail THEN fetched
                        ELSE [tasks |-> regular,
                              completed |-> IF merges THEN completed ELSE <<>>,
                              merged_completed |-> merges]
          /\ IF aborted # ""
             THEN /\ pc' = "error"
                  /\ error' = aborted
                  /\ UNCHANGED <<tasks, parent_tasks, child_tasks_by_parent, idx, result>>
             ELSE /\ tasks' = merged
                  /\ UNCHANGED error
                  /\ IF merged = <<>>
                     THEN /\ pc' = "done"
                          /\ result' = <<0>>
                          /\ UNCHANGED <<parent_tasks, child_tasks_by_parent, idx>>
                     ELSE /\ pc' = "loop"
                          /\ parent_tasks' = ParentTasks(merged)
                          /\ child_tasks_by_parent' = ChildTasksByParent(merged)
                          /\ idx' = 1
                          /\ UNCHANGED result
  /\ UNCHANGED <<args, config, remote, files, projects, target_project_id,
                 exported_count, exports, files0, edits>>

\* A variant of ReachesExport without the project lookup's skip.
ReachesExportAnyProject(task) == ~OrchestratorSkips(task, args.include_completed)

\* The task of the export loop at `task` goes on to the comment fetch and
\* export_task: its project resolves and the orchestrator does not skip it.
ReachesExport(task) ==
  /\ ProjectsDictGet(projects, task.project_id) # NoProject
  /\ ~OrchestratorSkips(task, args.include_completed)

(***************************************************************************)
(* Lines 92-122: one iteration of the export loop.                         *)
(***************************************************************************)
ProcessTask ==
  /\ UNCHANGED <<schedVars, formatVars>>
  /\ pc = "loop"
  /\ idx <= Len(parent_tasks)
  /\ LET task == parent_tasks[idx]
         project == ProjectsDictGet(projects, task.project_id)
         path == get_output_path(task, project)
         child_tasks == ChildTasksOf(child_tasks_by_parent, task)
     IN IF ~ReachesExport(task)
        THEN /\ idx' = idx + 1
             /\ UNCHANGED <<files, pc, exported_count, error, calls, exports,
                            failures, faults>>
        ELSE \E comments_fail \in BOOLEAN, io \in IoOutcomes :
             \E fetches \in {FetchesComments(task, config)} :
             \E comments \in {IF fetches /\ ~comments_fail
                               THEN SomeComments(get_task_comments(remote, task.id))
                               ELSE NoComments} :
             \E outcome \in {export_task(files[path], task, project, comments,
                                          child_tasks, SectionPassed(task), config, io)} :
               LET n == BoolCount(comments_fail) + IoFaultCount(io)
               IN /\ faults + n <= MaxFaults
                  /\ comments_fail => fetches
                  /\ io.read = "raises" => files[path].exists
                  /\ io # NoIoFault =>
                       ~(ExporterSkips(task, config) \/ RenderRaises(comments, config))
                  /\ faults' = faults + n
                  /\ failures' = failures
                       \cup (IF comments_fail THEN {"get_task_comments"} ELSE {})
                       \cup (IF io.read = "raises" THEN {"read"} ELSE {})
                       \cup (IF io.write # "ok" THEN {io.write} ELSE {})
                       \cup (IF RenderRaises(comments, config) /\ ~ExporterSkips(task, config)
                             THEN {"render"} ELSE {})
                  /\ calls' = IF fetches
                              THEN Append(calls, <<"get_task_comments", task.id>>)
                              ELSE calls
                  /\ IF comments_fail /\ ~CommentFetchErrorCaught
                     THEN /\ pc' = "error"
                          /\ error' = "get_task_comments"
                          /\ UNCHANGED <<idx, exported_count, exports, files>>
                     ELSE
                       /\ exports' = Append(exports,
                            [task |-> task, project |-> project, comments |-> comments,
                             child_tasks |-> child_tasks, section |-> SectionPassed(task),
                             path |-> path, before |-> files[path],
                             comments_fetch |-> IF ~fetches THEN "not_called"
                                                ELSE IF comments_fail THEN "raised" ELSE "ok",
                             io |-> io, raised |-> outcome.raised, wrote |-> outcome.wrote,
                             after |-> outcome.file,
                             counted |-> ~outcome.raised /\
                               CountAfterExport(exported_count, outcome) # exported_count])
                       /\ files' = [files EXCEPT ![path] = outcome.file]
                       /\ IF outcome.raised
                          THEN IF ExportErrorCaught
                               THEN /\ idx' = idx + 1
                                    /\ UNCHANGED <<pc, exported_count, error>>
                               ELSE /\ pc' = "error"
                                    /\ error' = "export_task"
                                    /\ UNCHANGED <<idx, exported_count>>
                          ELSE /\ idx' = idx + 1
                               /\ exported_count' = CountAfterExport(exported_count, outcome)
                               /\ UNCHANGED <<pc, error>>
  /\ UNCHANGED <<args, config, remote, projects, target_project_id, tasks,
                 parent_tasks, child_tasks_by_parent, result, fetched, files0, edits>>

(***************************************************************************)
(* Lines 124-125: the loop is over, the count is returned.                 *)
(***************************************************************************)
ReturnCount ==
  /\ UNCHANGED <<schedVars, formatVars>>
  /\ pc = "loop"
  /\ idx > Len(parent_tasks)
  /\ pc' = "done"
  /\ result' = <<exported_count>>
  /\ UNCHANGED <<args, config, remote, files, projects, target_project_id, tasks,
                 parent_tasks, child_tasks_by_parent, idx, exported_count, error,
                 calls, exports, fetched, failures, files0, edits, faults>>

Next == GetProjects \/ FetchTasks \/ ProcessTask \/ ReturnCount

Spec == Init /\ [][Next]_vars

(***************************************************************************)
(* The writer on its own: export_task called again and again on the note   *)
(* of one task, whose fields change between the calls, while a user        *)
(* appends a boundary line and custom text to the note between exports.    *)
(***************************************************************************)
\* The number of export_task calls on the note.
MaxExports == 3

\* A description that holds a line consisting of "---".
RuledDescription == <<"d", NL, DASH, DASH, DASH, NL, "e">>

\* What export_task is called with over time: the task t1 as it is, then
\* retitled with a comment and a subtask, then with a description, and with a
\* comment whose timestamp does not parse.
NoteExports ==
  {[task |-> T1, comments |-> NoComments, child_tasks |-> <<>>],
   [task |-> [T1 EXCEPT !.content = <<"B">>],
    comments |-> SomeComments(<<GoodComment>>),
    child_tasks |-> <<from_api_task(T2, FALSE)>>],
   [task |-> [T1 EXCEPT !.content = <<"B">>, !.description = RuledDescription],
    comments |-> NoComments, child_tasks |-> <<>>],
   [task |-> T1, comments |-> SomeComments(<<BadComment>>), child_tasks |-> <<>>]}

\* What a user appends below the boundary line: plain text, text that holds a
\* "---" line of its own between blank lines, and nothing but blanks.
CustomChoices ==
  {CustomText,
   <<NL, "m", NL, DASH, DASH, DASH, NL>>,
   <<SP, NL>>}

\* The number of times a user edits the note.
MaxEdits == 1

\* The I/O failures of export_task.
IoFailures == {"read", "open_raises", "write_raises"}

NotePath == get_output_path(T1, P1)

InitWriter ==
  /\ config = ConfigOf(FALSE, TRUE)
  /\ args = [project_id |-> None, project_name |-> <<>>, filter_expr |-> None,
             include_completed |-> FALSE]
  /\ remote = RemoteOf(<<P1>>, [id \in TaskIds |-> "absent"])
  /\ files = [p \in Paths |-> NoFile]
  /\ files0 = files
  /\ pc = "writer"
  /\ projects = <<>>
  /\ target_project_id = None
  /\ tasks = <<>>
  /\ parent_tasks = <<>>
  /\ child_tasks_by_parent = <<>>
  /\ idx = 0
  /\ exported_count = 0
  /\ result = NoResult
  /\ error = ""
  /\ calls = <<>>
  /\ exports = <<>>
  /\ fetched = NothingFetched
  /\ failures = {}
  /\ edits = <<>>
  /\ faults = 0
  /\ InitScheduledSync("off")
  /\ InitFormatOff

\* One export_task call on the note of t1.
WriterExport ==
  /\ UNCHANGED <<schedVars, formatVars>>
  /\ pc = "writer"
  /\ Len(exports) < MaxExports
  /\ \E call \in NoteExports, io \in IoOutcomes :
     \E outcome \in {export_task(files[NotePath], call.task, P1, call.comments,
                                  call.child_tasks, NoSection, config, io)} :
       LET task == call.task
           comments == call.comments
           child_tasks == call.child_tasks
       IN \* at most one I/O failure in the history of the note
          /\ io # NoIoFault => (IoFaultCount(io) = 1 /\ failures \cap IoFailures = {})
          /\ io.read = "raises" => files[NotePath].exists
          /\ io # NoIoFault =>
               ~(ExporterSkips(task, config) \/ RenderRaises(comments, config))
          /\ faults' = faults + IoFaultCount(io)
          /\ failures' = failures
               \cup (IF io.read = "raises" THEN {"read"} ELSE {})
               \cup (IF io.write # "ok" THEN {io.write} ELSE {})
               \cup (IF RenderRaises(comments, config) /\ ~ExporterSkips(task, config)
                     THEN {"render"} ELSE {})
          /\ exports' = Append(exports,
               [task |-> task, project |-> P1, comments |-> comments,
                child_tasks |-> child_tasks, section |-> NoSection,
                path |-> NotePath, before |-> files[NotePath],
                comments_fetch |-> "not_called",
                io |-> io, raised |-> outcome.raised, wrote |-> outcome.wrote,
                after |-> outcome.file, counted |-> FALSE])
          /\ files' = [files EXCEPT ![NotePath] = outcome.file]
  /\ UNCHANGED <<args, config, remote, pc, projects, target_project_id, tasks,
                 parent_tasks, child_tasks_by_parent, idx, exported_count, result,
                 error, calls, fetched, files0, edits>>

\* A user appends a boundary line and custom text to the note export_task
\* has just written.
UserAppend ==
  /\ UNCHANGED <<schedVars, formatVars>>
  /\ pc = "writer"
  /\ exports # <<>>
  /\ exports[Len(exports)].wrote
  /\ Len(edits) < MaxEdits
  /\ \A i \in 1..Len(edits) : edits[i].after # Len(exports)
  /\ \E custom \in CustomChoices :
       /\ files' = [files EXCEPT ![NotePath] =
                      FileOf(AppendBoundary(files[NotePath].text, custom))]
       /\ edits' = Append(edits, [after |-> Len(exports), custom |-> custom])
  /\ UNCHANGED <<args, config, remote, pc, projects, target_project_id, tasks,
                 parent_tasks, child_tasks_by_parent, idx, exported_count, result,
                 error, calls, exports, fetched, failures, files0, faults>>

NextWriter == WriterExport \/ UserAppend

SpecWriter == InitWriter /\ [][NextWriter]_vars

(***************************************************************************)
(* The properties of the note writer, checked on SpecWriter.               *)
(***************************************************************************)
\* The text holds a line that is not blank.
HasNonBlankLine(text) ==
  LET lines == SplitLines(text)
  IN \E i \in 1..Len(lines) : Strip(lines[i]) # <<>>

\* The last export_task call re-exported the note to which the user had
\* appended the edit a (and nothing since), read it and wrote it.
ReExportedAfter(a) ==
  LET n == Len(exports)
  IN /\ n >= 2
     /\ a.after = n - 1
     /\ \A j \in 1..Len(edits) : edits[j].after # n
     /\ exports[n].wrote
     /\ exports[n].io.read = "ok"
     /\ HasNonBlankLine(a.custom)

ChecklistLines(text) ==
  SelectSeq(SplitLines(text), LAMBDA l : l # <<>> /\ l[1] = "- ")

\* The checklist line of a child task, spelled out.
ExpectedChecklistLine(child) ==
  <<"- ", IF child.is_completed THEN "[x]" ELSE "[ ]", " ">> \o child.content

\* The fetched tasks whose parent_id is the id of `task`.
FetchedChildrenOf(task) == SelectSeq(tasks, LAMBDA t : t.parent_id = task.id)

\* C2: a fetched task whose parent_id is set is never passed to export_task
\* as the top-level task and its own path keeps the file it had before the
\* run; the note just written for a parent holds, for every child of it in
\* the fetched list, one checklist line with the child's content, "[x]" if
\* the child is completed and "[ ]" if not, and no other checklist line.
C2_ParentChildExclusion ==
  /\ \A i \in 1..Len(exports) : exports[i].task.parent_id = None
  /\ \A k \in 1..Len(tasks) :
       tasks[k].parent_id # None =>
         /\ \A i \in 1..Len(exports) : exports[i].task.id # tasks[k].id
         /\ files[<<tasks[k].id, ".md">>] = files0[<<tasks[k].id, ".md">>]
  /\ (exports # <<>> /\ exports[Len(exports)].wrote) =>
       LET e == exports[Len(exports)]
           lines == ChecklistLines(files[<<e.task.id, ".md">>].text)
           children == FetchedChildrenOf(e.task)
       IN /\ Len(lines) = Len(children)
          /\ \A k \in 1..Len(children) :
               Cardinality({j \in 1..Len(lines) : lines[j] = ExpectedChecklistLine(children[k])})
                 = Cardinality({j \in 1..Len(children) :
                      ExpectedChecklistLine(children[j]) = ExpectedChecklistLine(children[k])})

\* C2 witness: a parent was exported with a completed and an active child.
C2_Witness ==
  /\ pc = "done"
  /\ exports # <<>>
  /\ exports[Len(exports)].wrote
  /\ \E j, k \in 1..Len(tasks) :
       /\ tasks[j].parent_id = exports[Len(exports)].task.id
       /\ tasks[k].parent_id = exports[Len(exports)].task.id
       /\ tasks[j].is_completed
       /\ ~tasks[k].is_completed
  /\ Len(ChecklistLines(files[<<exports[Len(exports)].task.id, ".md">>].text)) >= 2

\* C3: the value returned equals the number of tasks whose note file was
\* written during the run.
C3_ReturnsWrittenCount ==
  pc = "done" =>
    result = <<Cardinality({i \in 1..Len(exports) : exports[i].wrote})>>

\* C4: for a completed task with completed-task inclusion disabled (in the
\* argument or in the export configuration), the export leaves the file at
\* the task's path as it was, creating none, and the task is not counted.
C4_SkipPolicy ==
  /\ ~args.include_completed =>
       \A i \in 1..Len(exports) : ~exports[i].task.is_completed
  /\ \A i \in 1..Len(exports) :
       (exports[i].task.is_completed /\ ~config.include_completed) =>
         /\ exports[i].after = exports[i].before
         /\ ~exports[i].counted

\* The tasks of the export loop handled so far that go on to export_task.
ExportedSoFar ==
  SelectSeq(SubSeq(parent_tasks, 1, idx - 1), LAMBDA t : ReachesExport(t))

\* C5: an export_task call that raises does not abort the run and is not
\* counted; the tasks after it are passed to export_task as the list has
\* them, the counter counts the calls that returned, and the run returns it.
C5_PartialFailureIsolation ==
  /\ error # "export_task"
  /\ \A i \in 1..Len(exports) : exports[i].raised => ~exports[i].counted
  /\ exported_count = Cardinality({i \in 1..Len(exports) : ~exports[i].raised})
  /\ pc \in {"loop", "done"} =>
       /\ Len(exports) = Len(ExportedSoFar)
       /\ \A i \in 1..Len(exports) : exports[i].task = ExportedSoFar[i]
  /\ (pc = "done" /\ tasks # <<>>) =>
       /\ idx = Len(parent_tasks) + 1
       /\ result = <<exported_count>>

\* C5 witness: a run returned after an export that raised while rendering
\* was followed by one that wrote its note.
C5_Witness ==
  /\ pc = "done"
  /\ "render" \in failures
  /\ \E i, j \in 1..Len(exports) :
       /\ i < j
       /\ exports[i].raised
       /\ exports[j].wrote
  /\ result = <<1>>

\* A project name is given without a project id.
NameGiven == args.project_name # <<>> /\ args.project_id \in {None, ""}

\* The indices of the fetched projects whose name equals the given one
\* case-insensitively.
NameMatches ==
  {i \in 1..Len(remote.projects) :
     Lower(remote.projects[i].name) = Lower(args.project_name)}

\* What makes a run end with an error, by the failures that happened.
AbortCause ==
  IF "get_projects" \in failures THEN "get_projects"
  ELSE IF pc # "start" /\ NameGiven /\ NameMatches = {} THEN "project_not_found"
  ELSE IF "get_tasks" \in failures THEN "get_tasks"
  ELSE IF "mkdir" \in failures THEN "mkdir"
  ELSE ""

\* C6 as stated: a run ends with an error only if get_projects failed or the
\* project name matched no project.
C6_OnlyTwoAborts ==
  pc = "error" => error \in {"get_projects", "project_not_found"}

\* C6 amended: a run ends with an error exactly if get_projects failed, the
\* project name (given without an id) matched no project, get_tasks failed,
\* or constructing the exporter (creating the output directory) failed; a
\* failure of get_completed_tasks, of get_task_comments or of a per-task step
\* does not end it, and a run that is over without an error returned a count.
C6_AbortCases ==
  /\ error = AbortCause
  /\ (pc = "error") = (error # "")
  /\ pc = "done" => (Len(result) = 1 /\ result[1] \in 0..Len(parent_tasks))

\* C6 witness: a run ended with the error of a failed get_tasks.
C6_Witness ==
  /\ pc = "error"
  /\ error = "get_tasks"
  /\ failures = {"get_tasks"}

\* The ids of the tasks of a list.
IdsOf(ts) == {ts[i].id : i \in 1..Len(ts)}

\* C7: when the completed tasks were merged, a task id that the regular fetch
\* and the completed fetch both returned is in the task list as the regular
\* fetch returned it and no more; it is passed to export_task at most once,
\* in the regular fetch's version, and exactly once in a run that returned
\* (as a top-level task of a known project).
C7_Deduplication ==
  (fetched.merged_completed /\ pc \in {"loop", "done"}) =>
    \A id \in IdsOf(fetched.tasks) \cap IdsOf(fetched.completed) :
      LET regular == SelectSeq(fetched.tasks, LAMBDA t : t.id = id)
          ours == {i \in 1..Len(exports) : exports[i].task.id = id}
      IN /\ SelectSeq(tasks, LAMBDA t : t.id = id) = regular
         /\ Cardinality(ours) <= Len(regular)
         /\ \A i \in ours : exports[i].task = regular[1] /\ ~exports[i].task.is_completed
         /\ (pc = "done" /\ regular[1].parent_id = None
               /\ \E k \in 1..Len(remote.projects) :
                    remote.projects[k].id = regular[1].project_id)
              => Cardinality(ours) = 1

\* C7 witness: a task listed by both fetches was exported in a run that
\* returned.
C7_Witness ==
  /\ pc = "done"
  /\ fetched.merged_completed
  /\ \E i \in 1..Len(exports) :
       /\ exports[i].task.id \in IdsOf(fetched.tasks) \cap IdsOf(fetched.completed)
       /\ exports[i].wrote

\* The id of the first fetched project whose name matches the given one.
FirstMatchId ==
  remote.projects[CHOOSE i \in NameMatches : \A j \in NameMatches : i <= j].id

\* C8: with a project name given without an id, if no fetched project's name
\* equals it case-insensitively the run ends with an error after get_projects:
\* no other client call is made and no file changes; if one does, get_tasks
\* and get_completed_tasks are called with the id of the first match.
C8_ProjectNameResolution ==
  NameGiven =>
    IF NameMatches = {}
    THEN /\ pc \in {"start", "error"}
         /\ pc = "error" => error \in {"get_projects", "project_not_found"}
         /\ \A k \in 1..Len(calls) : calls[k] = <<"get_projects">>
         /\ files = files0
         /\ exports = <<>>
    ELSE /\ error # "project_not_found"
         /\ \A k \in 1..Len(calls) :
              calls[k][1] \in {"get_tasks", "get_completed_tasks"} =>
                calls[k][2] = FirstMatchId

\* C8 witness: the name matched no project and the run ended with the error.
C8_Witness ==
  /\ NameGiven
  /\ NameMatches = {}
  /\ pc = "error"
  /\ error = "project_not_found"
  /\ calls = <<<<"get_projects">>>>

\* C9: with a project filter and a filter expression, every task get_tasks
\* returned, and every active task exported, belongs to the selected project.
C9_ScopedByBoth ==
  (target_project_id \notin {None, ""} /\ args.filter_expr \notin {None, ""}) =>
    /\ \A i \in 1..Len(fetched.tasks) :
         fetched.tasks[i].project_id = target_project_id
    /\ \A i \in 1..Len(exports) :
         ~exports[i].task.is_completed =>
           exports[i].task.project_id = target_project_id

\* The get_task_comments calls made so far.
CommentCalls == SelectSeq(calls, LAMBDA c : c[1] = "get_task_comments")

\* C10: with include_comments enabled, get_task_comments is called once for
\* each task passed to export_task, in that order and whatever its
\* comment_count, and the comments it returned are the ones export_task got;
\* with it disabled, get_task_comments is not called and export_task gets
\* no comments.
C10_CommentFetching ==
  IF config.include_comments
  THEN /\ Len(CommentCalls) = Len(exports)
       /\ \A i \in 1..Len(exports) :
            /\ CommentCalls[i] = <<"get_task_comments", exports[i].task.id>>
            /\ exports[i].comments_fetch \in {"ok", "raised"}
            /\ exports[i].comments_fetch = "ok" =>
                 exports[i].comments =
                   [none |-> FALSE, items |-> remote.comments[exports[i].task.id]]
       /\ pc = "done" => Len(exports) = Len(ExportedSoFar)
  ELSE /\ CommentCalls = <<>>
       /\ \A i \in 1..Len(exports) :
            /\ exports[i].comments_fetch = "not_called"
            /\ exports[i].comments = [none |-> TRUE, items |-> <<>>]

\* C10 witness: a task with comment_count 0 was exported with the comments
\* fetched for it.
C10_Witness ==
  /\ pc = "done"
  /\ config.include_comments
  /\ \E i \in 1..Len(exports) :
       /\ exports[i].task.comment_count = 0
       /\ exports[i].comments_fetch = "ok"
       /\ exports[i].comments.items # <<>>
       /\ exports[i].wrote

\* C11: a get_task_comments call that fails does not end the run; the task
\* is passed to export_task with no comments and, unless the writer skips
\* it or its I/O fails, its note is written without a comments section
\* and counted; the tasks after it are passed to export_task as the list
\* has them.
C11_CommentFetchFailureIsWarning ==
  /\ error # "get_task_comments"
  /\ \A i \in 1..Len(exports) :
       exports[i].comments_fetch = "raised" =>
         LET e == exports[i]
         IN /\ e.comments = [none |-> TRUE, items |-> <<>>]
            /\ (e.io = NoIoFault /\ ~(e.task.is_completed /\ ~config.include_completed)) =>
                 /\ e.wrote
                 /\ e.counted
                 /\ e.after.exists
                 /\ IsPrefix(format_task_content(e.task, e.project, NoComments,
                                                 e.child_tasks, NoSection, config),
                             e.after.text)
                 /\ ~Contains(e.after.text, "## Comments")
  /\ ("get_task_comments" \in failures /\ pc \in {"loop", "done"}) =>
       /\ Len(exports) = Len(ExportedSoFar)
       /\ \A i \in 1..Len(exports) : exports[i].task = ExportedSoFar[i]
  /\ ("get_task_comments" \in failures /\ pc = "done") =>
       result = <<Cardinality({i \in 1..Len(exports) : ~exports[i].raised})>>

\* C11 witness: the comment fetch of one task failed, its note was written
\* and counted, and a later task was exported with its comments.
C11_Witness ==
  /\ pc = "done"
  /\ \E i, j \in 1..Len(exports) :
       /\ i < j
       /\ exports[i].comments_fetch = "raised"
       /\ exports[i].wrote
       /\ exports[i].counted
       /\ exports[j].comments_fetch = "ok"
       /\ exports[j].wrote
  /\ result = <<2>>

\* The get_completed_tasks calls made so far.
CompletedCalls == SelectSeq(calls, LAMBDA c : c[1] = "get_completed_tasks")

\* The run is past the call of get_tasks, which returned.
PastTaskFetch == pc \notin {"start", "fetch"} /\ fetched # NothingFetched

\* C12: in a run that is past get_tasks, get_completed_tasks was called once
\* if include_completed is requested and not at all if it is not; when the
\* call failed the run does not end with its error, the task list is the
\* regular fetch's, and its top-level tasks are exported and counted as the
\* list has them.
C12_CompletedFetchFailure ==
  /\ error # "get_completed_tasks"
  /\ Len(CompletedCalls) <= 1
  /\ ~args.include_completed => CompletedCalls = <<>>
  /\ (Len(calls) >= 2 /\ "get_tasks" \notin failures) =>
       (Len(CompletedCalls) = 1) = args.include_completed
  /\ ("get_completed_tasks" \in failures /\ pc \in {"loop", "done"}) =>
       /\ tasks = fetched.tasks
       /\ fetched.tasks = <<>> => (pc = "done" /\ result = <<0>>)
       /\ fetched.tasks # <<>> =>
            /\ parent_tasks = SelectSeq(fetched.tasks, LAMBDA t : t.parent_id = None)
            /\ Len(exports) = Len(ExportedSoFar)
            /\ \A i \in 1..Len(exports) :
                 exports[i].task = ExportedSoFar[i] /\ ~exports[i].task.is_completed
            /\ exported_count = Cardinality({i \in 1..Len(exports) : ~exports[i].raised})
            /\ pc = "done" => result = <<exported_count>>

\* C12 witness: the completed fetch failed and the run returned the count of
\* the regular fetch's tasks it exported.
C12_Witness ==
  /\ pc = "done"
  /\ "get_completed_tasks" \in failures
  /\ remote.completed # <<>>
  /\ exports # <<>>
  /\ \A i \in 1..Len(exports) : exports[i].wrote
  /\ result = <<Len(exports)>>

\* No fetched project has the project_id of the task.
UnknownProject(task) ==
  \A k \in 1..Len(remote.projects) : remote.projects[k].id # task.project_id

\* C13: a top-level task whose project_id matches no fetched project is not
\* passed to export_task, the file at its path stays as it was before the
\* run and it is not counted; the run does not end with an error and the
\* other tasks are passed to export_task as the list has them.
C13_UnknownProjectSkipped ==
  pc \in {"loop", "done"} =>
    /\ error = ""
    /\ \A i \in 1..Len(exports) : ~UnknownProject(exports[i].task)
    /\ \A k \in 1..Len(parent_tasks) :
         UnknownProject(parent_tasks[k]) =>
           files[<<parent_tasks[k].id, ".md">>] = files0[<<parent_tasks[k].id, ".md">>]
    /\ LET others == SelectSeq(SubSeq(parent_tasks, 1, idx - 1),
                       LAMBDA t : ~UnknownProject(t)
                                  /\ ~(t.is_completed /\ ~args.include_completed))
       IN /\ Len(exports) = Len(others)
          /\ \A i \in 1..Len(exports) : exports[i].task = others[i]
    /\ exported_count = Cardinality({i \in 1..Len(exports) : ~exports[i].raised})

\* C13 witness: of two top-level tasks the one of an unknown project was
\* skipped and the other one exported and counted.
C13_Witness ==
  /\ pc = "done"
  /\ Len(parent_tasks) = 2
  /\ \E k \in 1..Len(parent_tasks) : UnknownProject(parent_tasks[k])
  /\ Len(exports) = 1
  /\ exports[1].wrote
  /\ result = <<1>>

\* The indices of the account's sections with the section_id of the task.
SectionsOf(task) ==
  {k \in 1..Len(remote.sections) : remote.sections[k].id = task.section_id}

\* C14: a run that reaches the export loop has fetched the sections; every
\* export_task call for a task whose section_id is that of a section gets
\* the section, and the note it writes carries a "section: " line; a task
\* with no section_id gets no section.
C14_SectionResolution ==
  /\ pc \in {"loop", "done"} =>
       \E k \in 1..Len(calls) : calls[k][1] = "get_sections"
  /\ \A i \in 1..Len(exports) :
       LET e == exports[i]
       IN /\ e.task.section_id = None => e.section = NoSection
          /\ SectionsOf(e.task) # {} =>
               /\ \E k \in SectionsOf(e.task) : e.section = remote.sections[k]
               /\ e.wrote => Contains(e.after.text, "section: ")

\* Other titles, descriptions and projects a task may come to have.
RenamedVersions(task) ==
  {[task EXCEPT !.content = c, !.description = d, !.is_completed = b] :
     c \in {task.content, <<"O">>, <<"B", SP, "/", "2">>},
     d \in {task.description, <<"x">>},
     b \in BOOLEAN}

\* C15: the path export_task uses is the task's id with ".md" in the output
\* directory, the same for every other title, description, completion state
\* and project of the task; two export_task calls use the same path exactly
\* if their tasks have the same id, and a note left at the path under an
\* earlier title is the file the export finds there.
C15_FilenameStability ==
  /\ \A i \in 1..Len(exports) :
       /\ exports[i].path = <<exports[i].task.id, ".md">>
       /\ \A version \in RenamedVersions(exports[i].task), project \in {P1, P2} :
            get_output_path(version, project) = exports[i].path
       /\ (\A j \in 1..(i - 1) : exports[j].task.id # exports[i].task.id) =>
            exports[i].before = files0[exports[i].path]
  /\ \A i, j \in 1..Len(exports) :
       (exports[i].path = exports[j].path) = (exports[i].task.id = exports[j].task.id)
  /\ \A p \in DOMAIN files :
       files[p] # files0[p] => \E i \in 1..Len(exports) : exports[i].path = p

\* C15 witness: a task whose note was left under another title was exported
\* to the same path, and a task with another id to another path.
C15_Witness ==
  /\ pc = "done"
  /\ \E i, j \in 1..Len(exports) :
       /\ exports[i].task.id # exports[j].task.id
       /\ exports[i].before = FileOf(OldNote)
       /\ exports[i].wrote
       /\ exports[j].wrote
       /\ exports[i].path # exports[j].path

\* C16: whatever cuts an export_task call short, the file at the task's path
\* holds afterwards either what it held before the call or the complete new
\* content, and every other file is as the earlier calls left it.
C16_AtomicWrites ==
  /\ \A i \in 1..Len(exports) :
       LET e == exports[i]
           complete == FinalContent(e.before, e.task, e.project, e.comments,
                                    e.child_tasks, e.section, config,
                                    e.io.read = "raises")
       IN e.after = e.before \/ e.after = FileOf(complete)
  /\ \A p \in DOMAIN files :
       LET last == {i \in 1..Len(exports) :
                      exports[i].path = p
                      /\ \A j \in (i + 1)..Len(exports) : exports[j].path # p}
       IN /\ last = {} => files[p] = files0[p]
          /\ \A i \in last : files[p] = exports[i].after

\* C17: an export_task call whose read of the existing file fails (and whose
\* rendering and write do not) returns normally, writes the newly rendered
\* content alone and is counted.
C17_UnreadableExistingFile ==
  \A i \in 1..Len(exports) :
    LET e == exports[i]
    IN (e.io.read = "raises" /\ e.io.write = "ok"
          /\ ~(e.task.is_completed /\ ~config.include_completed)
          /\ ~RenderRaises(e.comments, config)) =>
         /\ e.before.exists
         /\ ~e.raised
         /\ e.wrote
         /\ e.counted
         /\ e.after = FileOf(format_task_content(e.task, e.project, e.comments,
                                                 e.child_tasks, e.section, config))

\* C17 witness: the note with user content could not be read; the export
\* wrote the new content alone and the run counted it.
C17_Witness ==
  /\ pc = "done"
  /\ \E i \in 1..Len(exports) :
       /\ exports[i].io.read = "raises"
       /\ exports[i].before = FileOf(OldNote)
       /\ exports[i].wrote
       /\ exports[i].counted
       /\ ~IsSuffix(CustomText, exports[i].after.text)
       /\ files[exports[i].path] = exports[i].after
  /\ result # <<0>>

\* The indices of the lines of a text that are "---" up to surrounding blanks.
MarkerLines(text) ==
  LET lines == SplitLines(text)
  IN {i \in 1..Len(lines) : Strip(lines[i]) = <<"-", "-", "-">>}

\* The index of the third "---" line of a text that has three.
ThirdMarker(text) ==
  CHOOSE k \in MarkerLines(text) :
    Cardinality({j \in MarkerLines(text) : j < k}) = 2

\* The text after line k of a text: what follows its k-th newline, and
\* nothing when line k is the last one.
TextAfterLine(text, k) ==
  LET newlines == {p \in 1..Len(text) : text[p] = "\n"}
      at == {p \in newlines : Cardinality({q \in newlines : q <= p}) = k}
  IN IF at = {} THEN <<>>
     ELSE SubSeq(text, (CHOOSE p \in at : TRUE) + 1, Len(text))

\* The old file has three "---" lines and a non-blank line after the third.
KeepsOldText(text) ==
  /\ Cardinality(MarkerLines(text)) >= 3
  /\ \E p \in 1..Len(TextAfterLine(text, ThirdMarker(text))) :
       TextAfterLine(text, ThirdMarker(text))[p] \notin {" ", "\t", "\n"}

MaxSyncs == 3

MaxJobs == 2

MaxSignals == 1

\* What the export_tasks_internal call of line 80 does: it returns a count,
\* raises TodoistAPIError (core.py lines 50 and 66-68), or raises something
\* else (the mkdir of the exporter, core.py line 88).
ExportOutcomes == {"returned", "TodoistAPIError", "Exception"}

\* A variant of the except clauses that has only the one of line 105.
OnlyApiErrorCaught(outcome) == outcome = "TodoistAPIError"

\* Lines 105 and 110: the except clauses of sync_tasks.
SyncErrorCaught(outcome) == outcome \in {"TodoistAPIError", "Exception"}

\* sync_tasks, lines 71-113, from the outcome of the export on: what it
\* returns or raises and the fields it leaves behind.
sync_tasks(count, last, outcome, end_time) ==
  IF outcome = "returned"
  THEN [raised |-> FALSE, returned |-> TRUE,
        sync_count |-> count + 1, last_sync |-> <<end_time>>]
  ELSE IF SyncErrorCaught(outcome)
  THEN [raised |-> FALSE, returned |-> FALSE,
        sync_count |-> count, last_sync |-> last]
  ELSE [raised |-> TRUE, returned |-> FALSE,
        sync_count |-> count, last_sync |-> last]

\* Where the process goes on when sync_tasks returns to its caller.
AfterSync(who) ==
  CASE who = "run_once_now" -> "exit"      \* cli.py line 397
    [] who = "start" -> "loop"             \* scheduler.py line 219
    [] who = "run_pending" -> "sleep"      \* lines 224-225, 232

InitScheduler ==
  /\ config = ConfigOf(FALSE, TRUE)
  /\ args = [project_id |-> None, project_name |-> <<>>, filter_expr |-> None,
             include_completed |-> FALSE]
  /\ remote = RemoteOf(<<P1>>, [id \in TaskIds |-> "absent"])
  /\ files = [p \in Paths |-> NoFile]
  /\ files0 = files
  /\ pc = "scheduler"
  /\ projects = <<>>
  /\ target_project_id = None
  /\ tasks = <<>>
  /\ parent_tasks = <<>>
  /\ child_tasks_by_parent = <<>>
  /\ idx = 0
  /\ exported_count = 0
  /\ result = NoResult
  /\ error = ""
  /\ calls = <<>>
  /\ exports = <<>>
  /\ fetched = NothingFetched
  /\ failures = {}
  /\ edits = <<>>
  /\ faults = 0
  /\ InitScheduledSync("setup")
  /\ InitFormatOff

\* run_once_now, lines 200-201 (cli.py line 396): sync_tasks is called.
RunOnceNow ==
  /\ sched_pc = "setup"
  /\ jobs = 0
  /\ sched_pc' = "sync"
  /\ caller' = "run_once_now"
  /\ now' = now + 1
  /\ syncs' = Append(syncs, [caller |-> "run_once_now", after_stop |-> stopped,
                             start_time |-> now + 1, finished |-> FALSE])
  /\ UNCHANGED <<is_running, sync_count, last_sync, jobs, stopped, signals>>
  /\ UNCHANGED <<exportVars, formatVars>>

\* run_every and run_at, lines 159-192: one more job that calls sync_tasks.
RegisterJob ==
  /\ sched_pc = "setup"
  /\ jobs < MaxJobs
  /\ jobs' = jobs + 1
  /\ UNCHANGED <<is_running, sync_count, last_sync, sched_pc, caller, now, syncs,
                 stopped, signals>>
  /\ UNCHANGED <<exportVars, formatVars>>

\* start, line 209.
Start ==
  /\ sched_pc = "setup"
  /\ is_running' = TRUE
  /\ sched_pc' = "initial_check"
  /\ UNCHANGED <<sync_count, last_sync, jobs, caller, now, syncs, stopped, signals>>
  /\ UNCHANGED <<exportVars, formatVars>>

\* start, line 215: is a job registered?
InitialCheck ==
  /\ sched_pc = "initial_check"
  /\ sched_pc' = IF jobs > 0 THEN "initial_sync" ELSE "loop"
  /\ UNCHANGED <<is_running, sync_count, last_sync, jobs, caller, now, syncs,
                 stopped, signals>>
  /\ UNCHANGED <<exportVars, formatVars>>

\* start, lines 216-217: the initial sync_tasks call.
InitialSync ==
  /\ sched_pc = "initial_sync"
  /\ sched_pc' = "sync"
  /\ caller' = "start"
  /\ now' = now + 1
  /\ syncs' = Append(syncs, [caller |-> "start", after_stop |-> stopped,
                             start_time |-> now + 1, finished |-> FALSE])
  /\ UNCHANGED <<is_running, sync_count, last_sync, jobs, stopped, signals>>
  /\ UNCHANGED <<exportVars, formatVars>>

\* start, lines 222 and 230: the test of the while loop.
LoopTest ==
  /\ sched_pc = "loop"
  /\ sched_pc' = IF is_running THEN "run_pending" ELSE "exit"
  /\ UNCHANGED <<is_running, sync_count, last_sync, jobs, caller, now, syncs,
                 stopped, signals>>
  /\ UNCHANGED <<exportVars, formatVars>>

\* start, lines 223 and 231: schedule.run_pending() calls sync_tasks for a
\* registered job that is due, and returns when none is.
RunPending ==
  /\ sched_pc = "run_pending"
  /\ \E due \in BOOLEAN :
       IF due /\ jobs > 0 /\ Len(syncs) < MaxSyncs
       THEN /\ sched_pc' = "sync"
            /\ caller' = "run_pending"
            /\ now' = now + 1
            /\ syncs' = Append(syncs, [caller |-> "run_pending",
                                       after_stop |-> stopped,
                                       start_time |-> now + 1, finished |-> FALSE])
       ELSE /\ sched_pc' = "sleep"
            /\ UNCHANGED <<caller, now, syncs>>
  /\ UNCHANGED <<is_running, sync_count, last_sync, jobs, stopped, signals>>
  /\ UNCHANGED <<exportVars, formatVars>>

\* start, lines 225 and 232: time.sleep(1), then the loop test again.
Sleep ==
  /\ sched_pc = "sleep"
  /\ sched_pc' = "loop"
  /\ UNCHANGED <<is_running, sync_count, last_sync, jobs, caller, now, syncs,
                 stopped, signals>>
  /\ UNCHANGED <<exportVars, formatVars>>

\* sync_tasks, lines 80-113: the export ends and sync_tasks returns to its
\* caller; an exception it does not catch ends the process.
FinishSync ==
  /\ sched_pc = "sync"
  /\ \E outcome \in ExportOutcomes :
     \E r \in {sync_tasks(sync_count, last_sync, outcome, now + 1)} :
       /\ now' = now + 1
       /\ sync_count' = r.sync_count
       /\ last_sync' = r.last_sync
       /\ syncs' = [syncs EXCEPT ![Len(syncs)] =
                      [caller |-> @.caller, after_stop |-> @.after_stop,
                       start_time |-> @.start_time, finished |-> TRUE,
                       outcome |-> outcome, end_time |-> now + 1,
                       raised |-> r.raised, returned |-> r.returned,
                       count_before |-> sync_count, last_before |-> last_sync,
                       count_after |-> r.sync_count, last_after |-> r.last_sync,
                       stopped_meanwhile |-> stopped /\ ~@.after_stop]]
       /\ sched_pc' = IF r.raised THEN "exit" ELSE AfterSync(caller)
  /\ caller' = ""
  /\ UNCHANGED <<is_running, jobs, stopped, signals>>
  /\ UNCHANGED <<exportVars, formatVars>>

\* _signal_handler, lines 60-63, and stop, lines 238-239: a signal is
\* delivered to the live process.
SignalHandler ==
  /\ sched_pc \notin {"off", "exit"}
  /\ signals < MaxSignals
  /\ signals' = signals + 1
  /\ is_running' = FALSE
  /\ jobs' = 0
  /\ stopped' = TRUE
  /\ UNCHANGED <<sync_count, last_sync, sched_pc, caller, now, syncs>>
  /\ UNCHANGED <<exportVars, formatVars>>

NextScheduler ==
  \/ RunOnceNow
  \/ RegisterJob
  \/ Start
  \/ InitialCheck
  \/ InitialSync
  \/ LoopTest
  \/ RunPending
  \/ Sleep
  \/ FinishSync
  \/ SignalHandler

SpecScheduler == InitScheduler /\ [][NextScheduler]_vars

(***************************************************************************)
(* C18.  sync_tasks never raises.  When the export returns, sync_tasks     *)
(* returns True, sync_count grows by exactly one and last_sync is set to   *)
(* the end time; when the export raises TodoistAPIError or any other       *)
(* exception, sync_tasks returns False and sync_count and last_sync stay   *)
(* as they were.  Hence sync_count is the number of syncs that returned    *)
(* True, and last_sync is unset exactly when sync_count is 0.              *)
(***************************************************************************)
FinishedSyncs == {i \in 1..Len(syncs) : syncs[i].finished}

SuccessfulSyncs == {i \in FinishedSyncs : syncs[i].returned}

C18_SyncTasksContract ==
  /\ \A i \in FinishedSyncs :
       LET s == syncs[i]
       IN /\ ~s.raised
          /\ s.returned <=> s.outcome = "returned"
          /\ s.returned => /\ s.count_after = s.count_before + 1
                           /\ s.last_after = <<s.end_time>>
          /\ ~s.returned => /\ s.count_after = s.count_before
                            /\ s.last_after = s.last_before
  /\ sync_count = Cardinality(SuccessfulSyncs)
  /\ last_sync = NeverSynced <=> sync_count = 0

\* A sync that succeeded, one that met TodoistAPIError and one that met
\* another exception have all finished.
C18_Witness ==
  /\ \A o \in ExportOutcomes : \E i \in FinishedSyncs : syncs[i].outcome = o
  /\ sync_count = 1
  /\ last_sync # NeverSynced

(***************************************************************************)
(* C19.  Once stop() has been called, is_running is False and no job is    *)
(* registered, and start() begins no sync_tasks call any more: a sync in   *)
(* progress when the signal arrives runs to its end, and none starts after *)
(* it.                                                                     *)
(***************************************************************************)
\* the sync_tasks calls start() began, at line 217 or through run_pending,
\* after stop() had been called
SyncsBegunAfterStop ==
  {i \in 1..Len(syncs) : syncs[i].after_stop /\ syncs[i].caller # "run_once_now"}

C19_NoSyncAfterStop ==
  /\ stopped => (~is_running /\ jobs = 0)
  /\ SyncsBegunAfterStop = {}

\* What does hold: a stop() that start() has not overwritten (is_running
\* is still False) lets the loop begin no sync, and the sync it met in
\* progress has run to its end once the process is over.
StopInLoopIsHonoured ==
  /\ \A i \in SyncsBegunAfterStop :
       syncs[i].caller = "run_pending" => is_running
  /\ sched_pc = "exit" => FinishedSyncs = 1..Len(syncs)

(***************************************************************************)
(* The formatting functions on their own: format_yaml_string,              *)
(* sanitize_filename and format_tags applied to inputs drawn from bounded  *)
(* sets.                                                                   *)
(***************************************************************************)
MaxTextLen == 3

\* the strings over an alphabet, of length 0..n
RECURSIVE StringsUpTo(_, _)
StringsUpTo(alphabet, n) ==
  IF n = 0 THEN {<<>>}
  ELSE LET shorter == StringsUpTo(alphabet, n - 1)
       IN shorter \cup {Append(s, a) : s \in shorter, a \in alphabet}

\* Titles: the two quotes, the backslash, newline, tab and a letter.
YamlAlphabet == {SQ, DQ, BS, NL, TAB, "n"}

YamlStrings == StringsUpTo(YamlAlphabet, MaxTextLen)

\* Names: forbidden characters, underscore, space, a letter, an accented
\* letter and a non-ASCII symbol.
NameAlphabet == {"<", "/", US, SP, "a", EAcute, CheckMark}

ShortNames == StringsUpTo(NameAlphabet, MaxTextLen)

\* Names with a run of underscores, forbidden or non-ASCII characters inside.
RunNames ==
  {<<"a">> \o run \o <<"a">> :
     run \in {<<"<", "/">>, <<US, "<", US>>, <<US, CheckMark, US>>, <<"/", SP, "<">>}}

Pad(n) == [i \in 1..n |-> "a"]

\* Names around the length limit: a run of letters with a short head and tail.
LongNames ==
  {head \o Pad(n) \o tail :
     head \in {<<>>, <<US>>, <<"<", SP>>},
     n \in (MaxFilenameLen - 2)..(MaxFilenameLen + 1),
     tail \in {<<>>, <<US>>, <<"/", "a">>, <<US, "<", "a">>, <<SP, "a">>}}

TagInputs ==
  {[task |-> [BaseTask EXCEPT !.priority = pr, !.labels = ls, !.is_completed = done],
    project |-> pj,
    config |-> [ConfigOf(FALSE, FALSE) EXCEPT !.priority_as_tags = pt,
                                              !.labels_as_tags = lt]] :
     pr \in 1..4, done \in BOOLEAN, pt \in BOOLEAN, lt \in BOOLEAN,
     ls \in {<<>>, <<<<"u">>>>, <<<<"u">>, <<"H", SP, "k">>>>, <<<<"k">>, <<"u">>>>},
     pj \in {P1, [id |-> "p3", name |-> <<"H", "o", SP, "/", "k">>]}}

InitFormat ==
  /\ config = ConfigOf(FALSE, FALSE)
  /\ args = [project_id |-> None, project_name |-> <<>>, filter_expr |-> None,
             include_completed |-> FALSE]
  /\ remote = RemoteOf(<<P1>>, [id \in TaskIds |-> "absent"])
  /\ files = [p \in Paths |-> NoFile]
  /\ files0 = files
  /\ pc = "format"
  /\ projects = <<>>
  /\ target_project_id = None
  /\ tasks = <<>>
  /\ parent_tasks = <<>>
  /\ child_tasks_by_parent = <<>>
  /\ idx = 0
  /\ exported_count = 0
  /\ result = NoResult
  /\ error = ""
  /\ calls = <<>>
  /\ exports = <<>>
  /\ fetched = NothingFetched
  /\ failures = {}
  /\ edits = <<>>
  /\ faults = 0
  /\ InitScheduledSync("off")
  /\ quoted = NotApplied
  /\ filename = NotApplied
  /\ tags = NotApplied
  /\ \/ /\ text_in \in YamlStrings \cup ShortNames \cup RunNames \cup LongNames
        /\ tag_in = NoTagInput
     \/ text_in = <<>> /\ tag_in \in TagInputs

\* self.format_yaml_string(value)
FormatYamlString ==
  /\ pc = "format"
  /\ quoted = NotApplied
  /\ text_in \in YamlStrings
  /\ tag_in = NoTagInput
  /\ quoted' = <<format_yaml_string(text_in)>>
  /\ UNCHANGED <<text_in, tag_in, filename, tags>>
  /\ UNCHANGED <<exportVars, schedVars>>

\* self.sanitize_filename(name)
SanitizeFilename ==
  /\ pc = "format"
  /\ filename = NotApplied
  /\ tag_in = NoTagInput
  /\ filename' = <<sanitize_filename(text_in)>>
  /\ UNCHANGED <<text_in, tag_in, quoted, tags>>
  /\ UNCHANGED <<exportVars, schedVars>>

\* self.format_tags(task, project)
FormatTags ==
  /\ pc = "format"
  /\ tags = NotApplied
  /\ tag_in # NoTagInput
  /\ tags' = <<format_tags(tag_in.task, tag_in.project, tag_in.config)>>
  /\ UNCHANGED <<text_in, tag_in, quoted, filename>>
  /\ UNCHANGED <<exportVars, schedVars>>

NextFormat == FormatYamlString \/ SanitizeFilename \/ FormatTags

SpecFormat == InitFormat /\ [][NextFormat]_vars

(***************************************************************************)
(* Reading a quoted scalar back under the YAML quoting rules, as the       *)
(* yaml.safe_load of test_frontmatter_quote_escaping does.  A reading is   *)
(* [ok, text]; ok is FALSE where the scalar is malformed.                  *)
(***************************************************************************)
Malformed == [ok |-> FALSE, text |-> <<>>]

Reading(text) == [ok |-> TRUE, text |-> text]

\* the reading of the rest, with what was read before it in front
ReadThen(front, rest) == IF rest.ok THEN Reading(front \o rest.text) ELSE rest

\* the number of line breaks a string begins with
RECURSIVE LeadingBreaks(_)
LeadingBreaks(s) == IF s # <<>> /\ Head(s) = NL THEN 1 + LeadingBreaks(Tail(s)) ELSE 0

\* line folding: one line break reads as a space, n > 1 of them as n - 1
Folded(n) == IF n = 1 THEN <<SP>> ELSE [i \in 1..(n - 1) |-> NL]

\* the body of a double-quoted scalar: backslash escapes, and an unescaped
\* double quote ends the scalar before its end
RECURSIVE ReadDoubleQuoted(_)
ReadDoubleQuoted(s) ==
  IF s = <<>> THEN Reading(<<>>)
  ELSE IF s[1] = BS
  THEN IF Len(s) < 2 THEN Malformed
       ELSE LET rest == ReadDoubleQuoted(SubSeq(s, 3, Len(s)))
            IN CASE s[2] = BS -> ReadThen(<<BS>>, rest)
                 [] s[2] = DQ -> ReadThen(<<DQ>>, rest)
                 [] s[2] = "n" -> ReadThen(<<NL>>, rest)
                 [] s[2] = "t" -> ReadThen(<<TAB>>, rest)
                 [] s[2] = TAB -> ReadThen(<<TAB>>, rest)
                 [] s[2] = NL -> rest
                 [] OTHER -> Malformed
  ELSE IF s[1] = DQ THEN Malformed
  ELSE IF s[1] = NL
  THEN LET n == LeadingBreaks(s)
       IN ReadThen(Folded(n), ReadDoubleQuoted(SubSeq(s, n + 1, Len(s))))
  ELSE ReadThen(<<s[1]>>, ReadDoubleQuoted(Tail(s)))

\* the body of a single-quoted scalar: '' is the only escape
RECURSIVE ReadSingleQuoted(_)
ReadSingleQuoted(s) ==
  IF s = <<>> THEN Reading(<<>>)
  ELSE IF s[1] = SQ
  THEN IF Len(s) >= 2 /\ s[2] = SQ
       THEN ReadThen(<<SQ>>, ReadSingleQuoted(SubSeq(s, 3, Len(s))))
       ELSE Malformed
  ELSE IF s[1] = NL
  THEN LET n == LeadingBreaks(s)
       IN ReadThen(Folded(n), ReadSingleQuoted(SubSeq(s, n + 1, Len(s))))
  ELSE ReadThen(<<s[1]>>, ReadSingleQuoted(Tail(s)))

YamlRead(scalar) ==
  IF Len(scalar) >= 2 /\ scalar[1] = DQ /\ scalar[Len(scalar)] = DQ
  THEN ReadDoubleQuoted(SubSeq(scalar, 2, Len(scalar) - 1))
  ELSE IF Len(scalar) >= 2 /\ scalar[1] = SQ /\ scalar[Len(scalar)] = SQ
  THEN ReadSingleQuoted(SubSeq(scalar, 2, Len(scalar) - 1))
  ELSE Malformed

(***************************************************************************)
(* C21.  For every title, what format_yaml_string returns occupies one     *)
(* line and reads back, under the YAML quoting rules, as the title.        *)
(***************************************************************************)
C21_YamlRoundTrip ==
  quoted # NotApplied =>
    /\ ~Contains(quoted[1], NL)
    /\ YamlRead(quoted[1]) = Reading(text_in)

\* What does hold: the round trip of the titles that take the escaping
\* branch (both kinds of quote, or none), and of the titles with one kind
\* of quote and no backslash or newline.
YamlRoundTripWhereEscaped ==
  (/\ quoted # NotApplied
   /\ \/ Contains(text_in, SQ) <=> Contains(text_in, DQ)
      \/ ~Contains(text_in, BS) /\ ~Contains(text_in, NL))
  => /\ ~Contains(quoted[1], NL)
     /\ YamlRead(quoted[1]) = Reading(text_in)

(***************************************************************************)
(* C22.  format_tags returns, in this order: the bare namespace tag; the   *)
(* namespace/project tag; a priority tag if and only if priority > 1 and   *)
(* priority_as_tags is set; one label tag per label of the task, in the    *)
(* task's label order, if and only if labels_as_tags is set; and last      *)
(* exactly one status tag, completed or active as the task is.             *)
(***************************************************************************)
TagsOfKind(ts, kind) == {i \in 1..Len(ts) : Contains(ts[i], kind)}

\* the tag name made of a project name or a label
TagName(name) == sanitize_filename(Replace(Lower(name), SP, <<DASH>>))

C22_TagOrder ==
  tags # NotApplied =>
    LET ts == tags[1]
        task == tag_in.task
        namespace == <<"#">> \o tag_in.config.tag_prefix
        priorities == IF tag_in.config.priority_as_tags /\ task.priority > 1 THEN 1 ELSE 0
        labels == IF tag_in.config.labels_as_tags THEN Len(task.labels) ELSE 0
    IN /\ Len(ts) = 2 + priorities + labels + 1
       /\ ts[1] = namespace
       /\ ts[2] = namespace \o <<"/">> \o TagName(tag_in.project.name)
       /\ TagsOfKind(ts, "/priority/") = 3..(2 + priorities)
       /\ priorities = 1 =>
            ts[3] = namespace \o <<"/priority/">> \o Lower(priority_text(task.priority))
       /\ TagsOfKind(ts, "/label/") = (3 + priorities)..(2 + priorities + labels)
       /\ \A j \in 1..labels :
            ts[2 + priorities + j] = namespace \o <<"/label/">> \o TagName(task.labels[j])
       /\ TagsOfKind(ts, "/status/") = {Len(ts)}
       /\ ts[Len(ts)] = namespace \o <<"/status/">>
                          \o (IF task.is_completed THEN <<"completed">> ELSE <<"active">>)

\* format_tags has run on a completed task with a priority above 1 and two
\* labels, with both kinds of tag switched on, and returned six tags;
C22_Witness ==
  /\ tags # NotApplied
  /\ tag_in.task.priority > 1
  /\ tag_in.task.is_completed
  /\ Len(tag_in.task.labels) = 2
  /\ tag_in.config.priority_as_tags
  /\ tag_in.config.labels_as_tags
  /\ Len(tags[1]) = 6

(***************************************************************************)
(* C24.  For every input, sanitize_filename returns a non-empty string of  *)
(* at most 200 characters with none of the characters < > : " / \ | ? *    *)
(* and no two underscores in a row; an input that is empty or made of      *)
(* forbidden characters only gives exactly "untitled".                     *)
(***************************************************************************)
OnlyForbidden(name) == \A i \in 1..Len(name) : name[i] \in ForbiddenChars

C24_Sanitization ==
  filename # NotApplied =>
    LET out == filename[1]
    IN /\ out # <<>>
       /\ Len(out) <= MaxFilenameLen
       /\ \A i \in 1..Len(out) : out[i] \notin ForbiddenChars
       /\ \A i \in 1..(Len(out) - 1) : ~(out[i] = US /\ out[i + 1] = US)
       /\ OnlyForbidden(text_in) => out = <<"untitled">>

\* sanitize_filename has cut a name longer than the limit that held a
\* forbidden character;
C24_Witness ==
  /\ filename # NotApplied
  /\ Len(text_in) > MaxFilenameLen
  /\ \E i \in 1..Len(text_in) : text_in[i] \in ForbiddenChars
  /\ Len(filename[1]) = MaxFilenameLen

(***************************************************************************)
(* C23.  In a parent's note the checklist lines of its children stand in   *)
(* ascending order of the children's order key, and children of equal key  *)
(* stand in fetch order: those of the regular fetch before the merged      *)
(* completed ones.                                                         *)
(***************************************************************************)
\* the children of a task in fetch order, from what the two fetches returned
ChildrenInFetchOrder(task) ==
  LET regular_ids == {fetched.tasks[i].id : i \in 1..Len(fetched.tasks)}
  IN SelectSeq(fetched.tasks, LAMBDA t : t.parent_id = task.id)
       \o SelectSeq(fetched.completed,
                    LAMBDA c : c.parent_id = task.id /\ c.id \notin regular_ids)

\* key by key in ascending order, the tasks of each key as they stand in ts
RECURSIVE ByAscendingKey(_, _)
ByAscendingKey(ts, keys) ==
  IF keys = {} THEN <<>>
  ELSE LET least == CHOOSE k \in keys : \A other \in keys : k <= other
       IN SelectSeq(ts, LAMBDA t : t.order = least)
            \o ByAscendingKey(ts, keys \ {least})

C23_ChildOrdering ==
  \A i \in 1..Len(exports) :
    exports[i].wrote =>
      LET children == ChildrenInFetchOrder(exports[i].task)
          ordered == ByAscendingKey(children,
                                    {children[k].order : k \in 1..Len(children)})
      IN ChecklistLines(exports[i].after.text)
           = [k \in 1..Len(ordered) |-> ExpectedChecklistLine(ordered[k])]

\* The note of t1 lists t3 first, then t5 of the regular fetch, then the
\* merged completed t2, which has the order key of t5 and precedes it in
\* the account.
C23_Witness ==
  /\ pc = "done"
  /\ \E i \in 1..Len(exports) :
       /\ exports[i].wrote
       /\ exports[i].task.id = "t1"
       /\ ChecklistLines(exports[i].after.text)
            = <<ExpectedChecklistLine(T3),
                ExpectedChecklistLine(T5),
                ExpectedChecklistLine([T2 EXCEPT !.is_completed = TRUE])>>

(***************************************************************************)
(* C25.  Once a note has been re-exported with its user content kept,      *)
(* exporting the same unchanged task again leaves the file as it is, atom  *)
(* for atom.                                                               *)
(***************************************************************************)
\* The export_task call i kept user content of the file it found.
KeptUserContent(i) ==
  /\ exports[i].wrote
  /\ exports[i].io.read = "ok"
  /\ exports[i].before.exists
  /\ ExistingUserContent(exports[i].before.text) # <<>>

\* The call i exported what the call before it exported, and no user edited
\* the note in between.
RepeatsExport(i) ==
  /\ i >= 2
  /\ exports[i].task = exports[i - 1].task
  /\ exports[i].comments = exports[i - 1].comments
  /\ exports[i].child_tasks = exports[i - 1].child_tasks
  /\ \A k \in 1..Len(edits) : edits[k].after # i - 1

C25_ReExportFixedPoint ==
  \A i \in 1..Len(exports) :
    (RepeatsExport(i) /\ KeptUserContent(i - 1) /\ exports[i].wrote
       /\ exports[i].io.read = "ok")
    => exports[i].after = exports[i - 1].after

\* The rendered content of the call i holds fewer "---" lines than three.
RendersNoBoundary(i) ==
  Cardinality(SeparatorIndices(SplitLines(
    format_task_content(exports[i].task, exports[i].project, exports[i].comments,
                        exports[i].child_tasks, NoSection, config)))) < MinSeparators

\* What does hold: the repeated export keeps the rendered content and the
\* user's text, and adds one newline in front of the kept text.
ReExportAddsOneNewline ==
  \A i \in 1..Len(exports) :
    (RepeatsExport(i) /\ KeptUserContent(i - 1) /\ exports[i].wrote
       /\ exports[i].io.read = "ok" /\ RendersNoBoundary(i))
    => LET rendered == format_task_content(exports[i].task, exports[i].project,
                         exports[i].comments, exports[i].child_tasks, NoSection, config)
           boundary == <<NL, NL, DASH, DASH, DASH, NL, NL>>
           kept == SubSeq(exports[i - 1].after.text,
                          Len(rendered) + Len(boundary) + 1,
                          Len(exports[i - 1].after.text))
       IN /\ exports[i - 1].after.text = rendered \o boundary \o kept
          /\ exports[i].after.text = rendered \o boundary \o <<NL>> \o kept

(***************************************************************************)
(* C26.  For a note no user has edited, every export of the task writes    *)
(* exactly the freshly rendered content, also when the description, a      *)
(* subtask title or a comment of the task holds a line that is "---".      *)
(***************************************************************************)
RenderedBy(i) ==
  format_task_content(exports[i].task, exports[i].project, exports[i].comments,
                      exports[i].child_tasks, NoSection, config)

C26_GeneratedTextNotKept ==
  edits = <<>> =>
    \A i \in 1..Len(exports) :
      (exports[i].wrote /\ exports[i].io.read = "ok")
      => exports[i].after.text = RenderedBy(i)

\* What does hold: the same, as long as no content rendered into the note
\* so far held three "---" lines.
GeneratedTextNotKeptWithoutBoundary ==
  edits = <<>> =>
    \A i \in 1..Len(exports) :
      (exports[i].wrote /\ \A j \in 1..(i - 1) : RendersNoBoundary(j))
      => exports[i].after.text = RenderedBy(i)

(***************************************************************************)
(* C27.  No fetched task is lost without a trace: after a run in which     *)
(* nothing failed, every fetched task whose project is known and which     *)
(* the completed-task policy does not exclude is in a note the run wrote,  *)
(* as the note's own task or as a checklist line of its parent's note.     *)
(* This holds also for a child whose parent was not fetched.               *)
(***************************************************************************)
\* The completed-task policy of the run excludes the task.
ExcludedAsCompleted(task) ==
  task.is_completed /\ ~(args.include_completed /\ config.include_completed)

\* The run wrote a note for the task or a note with its checklist line.
RepresentedInANote(task) ==
  \E i \in 1..Len(exports) :
    /\ exports[i].wrote
    /\ \/ exports[i].task.id = task.id
       \/ /\ exports[i].task.id = task.parent_id
          /\ \E j \in 1..Len(ChecklistLines(exports[i].after.text)) :
               ChecklistLines(exports[i].after.text)[j] = ExpectedChecklistLine(task)

C27_NoTaskLost ==
  (pc = "done" /\ failures = {}) =>
    \A k \in 1..Len(tasks) :
      (~UnknownProject(tasks[k]) /\ ~ExcludedAsCompleted(tasks[k]))
      => RepresentedInANote(tasks[k])

\* What does hold: the same for the tasks without a parent, and for the
\* children whose parent is a fetched task that was itself written.
NoTaskLostWithWrittenParent ==
  (pc = "done" /\ failures = {}) =>
    \A k \in 1..Len(tasks) :
      (/\ ~UnknownProject(tasks[k])
       /\ ~ExcludedAsCompleted(tasks[k])
       /\ IsChildTask(tasks[k]) =>
            \E i \in 1..Len(exports) :
              exports[i].wrote /\ exports[i].task.id = tasks[k].parent_id)
      => RepresentedInANote(tasks[k])

(***************************************************************************)
(* C28.  When rendering the content fails inside export_task (a comment    *)
(* whose posted_at does not parse), the call raises and the note of the    *)
(* task is afterwards what it was before, atom for atom, user content      *)
(* included.                                                               *)
(***************************************************************************)
RenderFailed(i) ==
  /\ RenderRaises(exports[i].comments, config)
  /\ ~ExporterSkips(exports[i].task, config)

C28_RenderFailureKeepsFile ==
  \A i \in 1..Len(exports) :
    RenderFailed(i) =>
      /\ exports[i].raised
      /\ ~exports[i].wrote
      /\ exports[i].after = exports[i].before
      /\ i = Len(exports) /\ (\A k \in 1..Len(edits) : edits[k].after # i)
           => files[NotePath] = exports[i].before

\* The note held the rendered content and text a user had appended when the
\* rendering of the next export failed; it still holds both.
C28_Witness ==
  /\ exports # <<>>
  /\ RenderFailed(Len(exports))
  /\ exports[Len(exports)].before.exists
  /\ \E k \in 1..Len(edits) :
       /\ HasNonBlankLine(edits[k].custom)
       /\ IsSuffix(edits[k].custom, exports[Len(exports)].before.text)
  /\ files[NotePath] = exports[Len(exports)].before

(***************************************************************************)
(* C29.  Within one run no task id is passed to export_task more than      *)
(* once and no note is written more than once, whatever the regular and    *)
(* the completed fetch return, a completed fetch that lists an id several  *)
(* times included.                                                         *)
(***************************************************************************)
C29_ExportedOnce ==
  \A i, j \in 1..Len(exports) :
    i # j => /\ exports[i].task.id # exports[j].task.id
             /\ ~(exports[i].wrote /\ exports[j].wrote
                    /\ exports[i].path = exports[j].path)

\* What does hold: an id that the completed fetch lists at most once is
\* passed to export_task at most once, also when both fetches list it.
ExportedOnceUnlessListedTwice ==
  \A i, j \in 1..Len(exports) :
    (i # j /\ exports[i].task.id = exports[j].task.id)
    => Cardinality({k \in 1..Len(fetched.completed) :
                      fetched.completed[k].id = exports[i].task.id}) > 1

(***************************************************************************)
(* The scheduler under fairness: the process goes on executing start()     *)
(* and the sync_tasks calls it makes (every export comes to an end).       *)
(* Nothing is assumed about signals or about what the caller does before   *)
(* start().                                                                *)
(***************************************************************************)
StartSteps ==
  InitialCheck \/ InitialSync \/ LoopTest \/ RunPending \/ Sleep \/ FinishSync

SpecSchedulerLive ==
  InitScheduler /\ [][NextScheduler]_vars /\ WF_vars(StartSteps)

\* The process is inside start(), lines 209-234.
InStart ==
  \/ sched_pc \in {"initial_check", "initial_sync", "loop", "run_pending", "sleep"}
  \/ sched_pc = "sync" /\ caller \in {"start", "run_pending"}

(***************************************************************************)
(* C30.  If stop() has been called at any moment after the construction,   *)
(* before start() is entered or while a sync is running included, then     *)
(* start() eventually returns.                                             *)
(***************************************************************************)
C30_StopTerminates == (stopped /\ InStart) ~> (sched_pc = "exit")

\* What does hold: a stop() that start() has not overwritten ends start().
StopInsideStartTerminates ==
  (stopped /\ InStart /\ ~is_running) ~> (sched_pc = "exit")

====
